---- MODULE Spec2Model ----
(***************************************************************************)
(* A model of the workflow framework of iamgp/mdw:                         *)
(*   - Pipeline.execute                 (workflows/base.py)                *)
(*   - Registry and WorkflowManager     (data_warehouse/workflows/core)    *)
(*   - TemplateParser.resolve_references (workflows/templates.py)          *)
(*   - WorkflowValidator.validate_pipeline (workflows/tools/validator.py)  *)
(*   - WorkflowManager.create_pipeline_from_template and                   *)
(*     create_template_from_pipeline                                       *)
(*   - WorkflowDiscovery and its file handler (data_warehouse/workflow)    *)
(*   - WorkflowWatcher                  (data_warehouse/workflows/watcher.py) *)
(*   - APIClient._make_request          (data_warehouse/sources)           *)
(*   - WorkflowBase.execute             (data_warehouse/workflow/base.py)  *)
(* Each subsystem has its own specification over its own variables; the    *)
(* variables of the other subsystems stay at their initial value.          *)
(***************************************************************************)
EXTENDS Integers, Sequences, FiniteSets, TLC

VARIABLES
    \* ---- Pipeline (workflows/base.py) ----
    pipe,        \* the Pipeline object: transformers list, loader, last_run_time
    lastRun,     \* last_run_time of extractor / each transformer / loader
    clock,       \* the wall clock read by datetime.now()
    callLog,     \* the calls the latest execute() made on the components
    outcome,     \* what the caller of the latest execute() observed
    runs,        \* number of execute() calls so far
    \* ---- Registry / WorkflowManager (data_warehouse/workflows/core) ----
    registry,    \* the Registry object: four instance stores, three type stores
    registered,  \* history: per instance store, what was registered under each
                 \* name and not unregistered or cleared since
    lastOp,      \* the latest operation on the manager and what its caller got
    \* ---- WorkflowManager.create_pipeline_from_template ----
    nextId,      \* identity of the next object the manager instantiates
    creates,     \* number of create_pipeline_from_template() calls so far
    \* ---- TemplateParser (workflows/templates.py) ----
    template,    \* the caller's template dict; its "pipelines" list holds
                 \* references (addresses) to the pipeline dicts
    heap,        \* the pipeline dicts, by address
    templateBefore,\* history: the template as the caller saw it on
                 \* entry to the latest resolve_references()
    resolved,    \* what the latest resolve_references() returned or raised
    resolveCalls,\* number of resolve_references() calls so far
    \* ---- WorkflowManager.create_template_from_pipeline ----
    saved,       \* what the latest create_template_from_pipeline() raised and the
                 \* document it wrote
    rebuilt,     \* what create_pipeline_from_template() on the saved document
                 \* gave a second manager, and that manager's registry
    \* ---- WorkflowValidator.validate_pipeline ----
    candidate,   \* the pipeline handed to validate_pipeline()
    verdict,     \* what validate_pipeline(candidate) raised or returned
    \* ---- WorkflowDiscovery / WorkflowFileHandler (data_warehouse/workflow/discovery.py) ----
    calls,       \* the calls the main thread has made
    now,         \* time.time(), in seconds
    mtime,       \* os.path.getmtime of each module file
    discovered_modules,\* WorkflowDiscovery.discovered_modules
    watching,    \* WorkflowDiscovery.watching
    last_reload_time,\* last_reload_time of the handler of each directory
    threads,     \* where the main thread and each timer thread is
    lock,        \* WorkflowDiscovery._lock
    workflows,   \* the classes in WorkflowRegistry._workflows
    scheduled,   \* every Timer started so far: when, and by which handler
    registerLog, \* the registry.register calls of the latest step that made any: the
                 \* caller and the lock's owner during the call
    reloaded,    \* what the latest reload_workflows() returned
    pendingEvent,\* history: a relevant event arrived while watching and no
                 \* reload_workflows run has begun since
    \* ---- WorkflowWatcher (data_warehouse/workflows/watcher.py) ----
    watcher,     \* the WorkflowWatcher: _running, the state of its observer thread
                 \* and the directories scheduled on it
    inBlock,     \* whether control is inside a with-block of the watcher
    lastCall,    \* the latest call on the watcher: what it raised and the watcher
                 \* before it
    reloads,     \* the paths reload_callback was called with
    \* ---- APIClient._make_request (data_warehouse/sources/api_client.py) ----
    request,     \* the _make_request call in progress: its arguments and attempts
    httpLog,     \* the outcome of each HTTP attempt of the call
    response,    \* what the call returned or raised
    \* ---- WorkflowBase.execute (data_warehouse/workflow/base.py) ----
    workflow,    \* the workflow: status, context and the step execute calls next
    executes,    \* number of execute() calls so far
    trace,       \* the step calls of the latest execute(): argument, return value
                 \* or exception
    executed     \* what the latest execute() returned or raised, and the context
                 \* it found

pipeVars == <<pipe, lastRun, clock, callLog, outcome, runs>>
regVars == <<registry, registered, lastOp>>
mgrVars == <<nextId, creates>>
tplVars == <<template, heap, templateBefore, resolved, resolveCalls>>
rtVars == <<saved, rebuilt>>
valVars == <<candidate, verdict>>
discVars == <<calls, now, mtime, discovered_modules, watching, last_reload_time,
    threads, lock, workflows, scheduled, registerLog, reloaded, pendingEvent>>
watchVars == <<watcher, inBlock, lastCall, reloads>>
apiVars == <<request, httpLog, response>>
wfVars == <<workflow, executes, trace, executed>>

\* Everything an operation of one subsystem leaves alone.
exceptPipeline ==
    <<regVars, mgrVars, tplVars, rtVars, valVars, discVars, watchVars,
      apiVars, wfVars>>
exceptRegistry ==
    <<pipeVars, mgrVars, tplVars, rtVars, valVars, discVars, watchVars,
      apiVars, wfVars>>
exceptManager ==
    <<pipeVars, tplVars, rtVars, valVars, discVars, watchVars, apiVars,
      wfVars>>
exceptTemplate ==
    <<pipeVars, regVars, mgrVars, rtVars, valVars, discVars, watchVars,
      apiVars, wfVars>>
exceptRoundTrip ==
    <<pipeVars, regVars, mgrVars, tplVars, valVars, discVars, watchVars,
      apiVars, wfVars>>
exceptValidator ==
    <<pipeVars, regVars, mgrVars, tplVars, rtVars, discVars, watchVars,
      apiVars, wfVars>>
exceptDiscovery ==
    <<pipeVars, regVars, mgrVars, tplVars, rtVars, valVars, watchVars,
      apiVars, wfVars>>
exceptWatcher ==
    <<pipeVars, regVars, mgrVars, tplVars, rtVars, valVars, discVars,
      apiVars, wfVars>>
exceptApi ==
    <<pipeVars, regVars, mgrVars, tplVars, rtVars, valVars, discVars,
      watchVars, wfVars>>
exceptWorkflow ==
    <<pipeVars, regVars, mgrVars, tplVars, rtVars, valVars, discVars,
      watchVars, apiVars>>

vars ==
    <<pipe, lastRun, clock, callLog, outcome, runs, registry, registered,
      lastOp, nextId, creates, template, heap, templateBefore, resolved,
      resolveCalls, saved, rebuilt, candidate, verdict, calls, now, mtime,
      discovered_modules, watching, last_reload_time, threads, lock,
      workflows, scheduled, registerLog, reloaded, pendingEvent, watcher,
      inBlock, lastCall, reloads, request, httpLog, response, workflow,
      executes, trace, executed>>

None == "None"

\* "No object" where the value is otherwise a dict or an instance.
NoTemplate == [missing |-> TRUE]
NoPipeline == [id |-> None]

\* None (null in YAML/JSON) as the value of a template key.
Null == [null |-> TRUE]

(***************************************************************************)
(* Pipeline.execute                                                        *)
(***************************************************************************)

\* Most transformers a pipeline of the model holds.
MaxTransformers == 2
\* Most execute() calls on the pipeline.
MaxRuns == 2

TransformerIds == {"t1", "t2"}
Data == {"d0", "d1"}

\* The exception a failing component raises (a subclass of Exception).
ComponentErrors == {"ValueError"}

\* The names bound in the module namespace of workflows/base.py: its imports
\* and its own definitions.  PipelineError is not among them.
ModuleGlobals ==
    {"ABC", "abstractmethod", "datetime", "Any", "Generic", "TypeVar",
     "InputType", "OutputType", "MetadataType",
     "BaseExtractor", "BaseTransformer", "BaseLoader", "Pipeline", "WorkflowManager"}

\* Evaluating a global name: the object, or NameError when nothing binds it.
LookupGlobal(name) == IF name \in ModuleGlobals THEN name ELSE "NameError"

\* Sequences over S of length at most n.
SeqUpTo(S, n) == UNION {[1..k -> S] : k \in 0..n}

\* Pipeline.__init__: transformers or [], loader (None or an object).
PipelineInit(ts, hasLoader) ==
    [transformers |-> ts, loader |-> IF hasLoader THEN "loader" ELSE None, last_run_time |-> None]

\* What transform may compute: a transformer returns fn[data].
TransformFns == {[d \in Data |-> d], [d \in Data |-> IF d = "d0" THEN "d1" ELSE "d0"]}

\* The behaviour of the components during one run.  A run stops at the first
\* failing call, so what the components after it would have done is never
\* observed: the environments are the healthy ones and those with one fault.
HealthyEnvironments ==
    [validate_source : {"True"},
     extract : Data,
     transformer : [TransformerIds -> [raises : {None}, fn : TransformFns]],
     validate_destination : {"True"},
     load : {"ok"},
     error : {None}]

Faulty(h) ==
    {[h EXCEPT !.validate_source = "False"], [h EXCEPT !.validate_destination = "False"]}
      \cup UNION {
           {[h EXCEPT !.validate_source = "raise", !.error = e],
            [h EXCEPT !.extract = "raise", !.error = e],
            [h EXCEPT !.validate_destination = "raise", !.error = e],
            [h EXCEPT !.load = "raise", !.error = e]}
             \cup {[h EXCEPT !.transformer[t].raises = m, !.error = e] :
                     t \in TransformerIds, m \in {"validate_input", "transform", "validate_output"}}
           : e \in ComponentErrors}

Environments == HealthyEnvironments \cup UNION {Faulty(h) : h \in HealthyEnvironments}

\* One call on a component: its argument and what it returned ("raise" when
\* it raised; None when the caller does not use the value).
Call(method, who, arg, ret) == [method |-> method, who |-> who, arg |-> arg, ret |-> ret]

\* A run in progress: the calls made, the current data, the exception raised
\* (None while running), the last_run_time fields and the clock.
RunState(log, data, exc, lr, plr, clk) ==
    [log |-> log, data |-> data, exc |-> exc, lastRun |-> lr, pipeLastRun |-> plr, clock |-> clk]

\* One iteration of the for-loop over self.transformers (lines 276-286).
TransformStep(t, env, st) ==
    LET b == env.transformer[t]
    IN IF b.raises = "validate_input"
         THEN [st EXCEPT !.log = Append(@, Call("validate_input", t, st.data, "raise")),
                         !.exc = env.error]
       ELSE
         LET log1 == Append(st.log, Call("validate_input", t, st.data, None))
         IN IF b.raises = "transform"
              THEN [st EXCEPT !.log = Append(log1, Call("transform", t, st.data, "raise")),
                              !.exc = env.error]
            ELSE
              LET out == b.fn[st.data]
                  log2 == Append(log1, Call("transform", t, st.data, out))
              IN IF b.raises = "validate_output"
                   THEN [st EXCEPT !.log = Append(log2, Call("validate_output", t, out, "raise")),
                                   !.data = out, !.exc = env.error]
                   ELSE [st EXCEPT !.log = Append(log2, Call("validate_output", t, out, None)),
                                   !.data = out,
                                   !.lastRun = [@ EXCEPT ![t] = st.clock + 1],
                                   !.clock = st.clock + 1]

\* The for-loop over self.transformers (line 275), from index i on; an
\* exception leaves the loop.
RECURSIVE TransformLoop(_, _, _, _)
RECURSIVE TransformLoopBackwards(_, _, _, _)
TransformLoopBackwards(ts, i, env, st) ==
    IF st.exc # None \/ i > Len(ts) THEN st
    ELSE TransformLoopBackwards(ts, i + 1, env, TransformStep(ts[Len(ts) + 1 - i], env, st))

TransformLoop(ts, i, env, st) ==
    IF st.exc # None \/ i > Len(ts) THEN st
    ELSE TransformLoop(ts, i + 1, env, TransformStep(ts[i], env, st))

\* The loader block without its guard: load is called whatever
\* validate_destination returned.
LoadBlockWithoutGuard(env, st) ==
    IF env.validate_destination = "raise"
      THEN [st EXCEPT !.log = Append(@, Call("validate_destination", "loader", None, "raise")),
                      !.exc = env.error]
    ELSE
      LET log1 == Append(st.log, Call("validate_destination", "loader", None, env.validate_destination))
      IN IF env.load = "raise"
           THEN [st EXCEPT !.log = Append(log1, Call("load", "loader", st.data, "raise")),
                           !.exc = env.error]
           ELSE [st EXCEPT !.log = Append(log1, Call("load", "loader", st.data, None)),
                           !.lastRun = [@ EXCEPT !["loader"] = st.clock + 1],
                           !.clock = st.clock + 1]

\* The body of the loader block (lines 290-295).
LoadBlock(env, st) ==
    IF env.validate_destination = "raise"
      THEN [st EXCEPT !.log = Append(@, Call("validate_destination", "loader", None, "raise")),
                      !.exc = env.error]
    ELSE IF env.validate_destination = "False"
      THEN [st EXCEPT !.log = Append(@, Call("validate_destination", "loader", None, "False")),
                      !.exc = LookupGlobal("PipelineError")]
    ELSE
      LET log1 == Append(st.log, Call("validate_destination", "loader", None, "True"))
      IN IF env.load = "raise"
           THEN [st EXCEPT !.log = Append(log1, Call("load", "loader", st.data, "raise")),
                           !.exc = env.error]
           ELSE [st EXCEPT !.log = Append(log1, Call("load", "loader", st.data, None)),
                           !.lastRun = [@ EXCEPT !["loader"] = st.clock + 1],
                           !.clock = st.clock + 1]

LoadStepOnlyAfterTransform(p, env, st) ==
    IF st.exc # None \/ p.loader = None \/ p.transformers = <<>> THEN st ELSE LoadBlock(env, st)

\* "if self.loader:" (line 289): the loader block runs when a loader is set.
LoadStep(p, env, st) ==
    IF st.exc # None \/ p.loader = None THEN st ELSE LoadBlock(env, st)

\* The body of the try block (lines 266-301).
TryBody(p, env, lr, clk) ==
    LET st0 == RunState(<<>>, None, None, lr, p.last_run_time, clk)
    IN IF env.validate_source = "raise"
         THEN [st0 EXCEPT !.log = <<Call("validate_source", "extractor", None, "raise")>>,
                          !.exc = env.error]
       ELSE IF env.validate_source = "False"
         THEN [st0 EXCEPT !.log = <<Call("validate_source", "extractor", None, "False")>>,
                          !.exc = LookupGlobal("PipelineError")]
       ELSE
         LET log1 == <<Call("validate_source", "extractor", None, "True")>>
         IN IF env.extract = "raise"
              THEN [st0 EXCEPT !.log = Append(log1, Call("extract", "extractor", None, "raise")),
                               !.exc = env.error]
            ELSE
              LET st1 == [st0 EXCEPT !.log = Append(log1, Call("extract", "extractor", None, env.extract)),
                                     !.data = env.extract,
                                     !.lastRun = [@ EXCEPT !["extractor"] = clk + 1],
                                     !.clock = clk + 1]
                  st2 == TransformLoop(p.transformers, 1, env, st1)
                  st3 == LoadStep(p, env, st2)
              IN IF st3.exc # None THEN st3
                 ELSE [st3 EXCEPT !.pipeLastRun = st3.clock + 1, !.clock = st3.clock + 1]

\* The except clause (lines 302-306): isinstance(e, PipelineError) evaluates
\* the global name first; a PipelineError is re-raised, anything else wrapped.
ExceptClause(e) ==
    IF LookupGlobal("PipelineError") = "NameError" THEN "NameError"
    ELSE IF e # "PipelineError" THEN LookupGlobal("PipelineError")
    ELSE e

\* Pipeline.execute as its caller sees it.
ExecuteResult(p, env, lr, clk) ==
    LET st == TryBody(p, env, lr, clk)
    IN [st EXCEPT !.exc = IF st.exc = None THEN None ELSE ExceptClause(st.exc)]

Components == {"extractor", "loader"} \cup TransformerIds

Execute ==
    /\ runs < MaxRuns
    /\ UNCHANGED exceptPipeline
    /\ \E env \in Environments :
         LET r == ExecuteResult(pipe, env, lastRun, clock)
         IN /\ pipe' = [pipe EXCEPT !.last_run_time = r.pipeLastRun]
            /\ lastRun' = r.lastRun
            /\ clock' = r.clock
            /\ callLog' = r.log
            /\ outcome' = IF r.exc = None
                            THEN [kind |-> "returned", exc |-> None, value |-> r.data]
                            ELSE [kind |-> "raised", exc |-> r.exc, value |-> None]
            /\ runs' = runs + 1

(***************************************************************************)
(* Claims about Pipeline.execute                                           *)
(***************************************************************************)

IsPrimaryCall(c) == c.method \in {"extract", "transform", "load"}
PrimaryCalls == SelectSeq(callLog, IsPrimaryCall)
IsFailedCall(c) == c.ret \in {"raise", "False"}
SomeCallFailed == SelectSeq(callLog, IsFailedCall) # <<>>

\* C1: a run that returns called extract once, then transform of each
\* transformer once in list order, transformer i on the value stage i-1
\* returned, then (with a loader) load once on the last stage's output, and
\* returned the value passed to the loader.
C1_ExecuteCallsStagesInOrder ==
    outcome.kind = "returned" =>
      LET P == PrimaryCalls
          n == Len(pipe.transformers)
      IN /\ Len(P) = 1 + n + (IF pipe.loader # None THEN 1 ELSE 0)
         /\ P[1].method = "extract"
         /\ \A i \in 1..n : /\ P[i + 1].method = "transform"
                            /\ P[i + 1].who = pipe.transformers[i]
                            /\ P[i + 1].arg = P[i].ret
         /\ outcome.value = P[n + 1].ret
         /\ pipe.loader # None =>
              /\ P[n + 2].method = "load"
              /\ P[n + 2].arg = P[n + 1].ret
              /\ outcome.value = P[n + 2].arg

\* A run of two different transformers and a loader that returned, the
\* first transformer having changed the data.
C1_Witness ==
    /\ outcome.kind = "returned"
    /\ pipe.transformers = <<"t2", "t1">>
    /\ pipe.loader # None
    /\ PrimaryCalls[2].ret # PrimaryCalls[2].arg
    /\ PrimaryCalls[3].ret = PrimaryCalls[3].arg

\* C2: with an empty transformer list and no failing component the run
\* returns the extractor's output, and the loader (when set) received exactly
\* that output.
C2_EmptyTransformerListRuns ==
    (runs > 0 /\ pipe.transformers = <<>> /\ ~SomeCallFailed) =>
      /\ outcome.kind = "returned"
      /\ PrimaryCalls[1].method = "extract"
      /\ outcome.value = PrimaryCalls[1].ret
      /\ pipe.loader # None =>
           /\ Len(PrimaryCalls) = 2
           /\ PrimaryCalls[2].method = "load"
           /\ PrimaryCalls[2].arg = PrimaryCalls[1].ret

C2_Witness ==
    /\ runs > 0
    /\ pipe.transformers = <<>>
    /\ pipe.loader # None
    /\ outcome.kind = "returned"
    /\ outcome.value = "d1"

\* C3: whenever a step of execute fails (validate_source or
\* validate_destination returns False, or a component call raises), the
\* caller observes a PipelineError and no other exception type.
C3_FailureRaisesPipelineError ==
    SomeCallFailed => (outcome.kind = "raised" /\ outcome.exc = "PipelineError")

\* The calls of the latest run on one method of one component.
CallsOf(log, method, who) == SelectSeq(log, LAMBDA c : c.method = method /\ c.who = who)
Refused(log, method, who) == \E i \in 1..Len(log) : log[i] = Call(method, who, None, "False")

\* last_run_time is None or a clock value; the two are compared as text.
SameTime(a, b) == ToString(a) = ToString(b)

\* C21: a run in which validate_source returned False makes no extract call,
\* a run in which validate_destination returned False makes no load call, and
\* the pipeline's own last_run_time changes only in a run that returned (a
\* run that raised leaves it as it was).
C21_GuardsAndOwnTimestamp ==
    [][runs' = runs + 1 =>
         /\ Refused(callLog', "validate_source", "extractor") =>
              CallsOf(callLog', "extract", "extractor") = <<>>
         /\ Refused(callLog', "validate_destination", "loader") =>
              CallsOf(callLog', "load", "loader") = <<>>
         /\ outcome'.kind = "raised" => SameTime(pipe'.last_run_time, pipe.last_run_time)
         /\ ~SameTime(pipe'.last_run_time, pipe.last_run_time) => outcome'.kind = "returned"]_<<runs, vars>>

\* A second run refused by the loader's validate_destination, after a first
\* run that returned and stamped the pipeline.
C21_Witness ==
    /\ runs = 2
    /\ outcome.kind = "raised"
    /\ Refused(callLog, "validate_destination", "loader")
    /\ CallsOf(callLog, "extract", "extractor") # <<>>
    /\ ~SameTime(pipe.last_run_time, None)

(***************************************************************************)
(* Registry (workflows/core/registry.py)                                   *)
(***************************************************************************)

\* Python dicts as functions on their key set.
EmptyDict == <<>>
Put(d, k, v) == [x \in DOMAIN d \cup {k} |-> IF x = k THEN v ELSE d[x]]
Del(d, k) == [x \in DOMAIN d \ {k} |-> d[x]]
Values(d) == {d[k] : k \in DOMAIN d}

\* What an operation gives its caller: the registry after it, the exception
\* raised (None when it returned) and the value returned.
Result(reg, exc, ret) == [reg |-> reg, exc |-> exc, ret |-> ret]

\* Registry.__init__ (lines 34-45).
RegistryInit ==
    [extractors |-> EmptyDict, transformers |-> EmptyDict, loaders |-> EmptyDict,
     pipelines |-> EmptyDict,
     extractor_types |-> EmptyDict, transformer_types |-> EmptyDict, loader_types |-> EmptyDict]

InstanceStores == {"extractors", "transformers", "loaders", "pipelines"}
TypeStores == {"extractor_types", "transformer_types", "loader_types"}

\* A name that is not a str (register_extractor checks isinstance(name, str)).
NonStrName == "<int>"
IsStr(name) == name # NonStrName

\* --- type registration (lines 49-68): keyed by __name__, overwriting ---
register_extractor_type(reg, cls) == [reg EXCEPT !.extractor_types = Put(@, cls.name, cls)]
register_transformer_type(reg, cls) == [reg EXCEPT !.transformer_types = Put(@, cls.name, cls)]
register_loader_type(reg, cls) == [reg EXCEPT !.loader_types = Put(@, cls.name, cls)]

\* --- type lookup (lines 70-86) ---
get_extractor_type(reg, class_name) ==
    IF class_name \notin DOMAIN reg.extractor_types THEN Result(reg, "KeyError", None)
    ELSE Result(reg, None, reg.extractor_types[class_name])
get_transformer_type(reg, class_name) ==
    IF class_name \notin DOMAIN reg.transformer_types THEN Result(reg, "KeyError", None)
    ELSE Result(reg, None, reg.transformer_types[class_name])
get_loader_type(reg, class_name) ==
    IF class_name \notin DOMAIN reg.loader_types THEN Result(reg, "KeyError", None)
    ELSE Result(reg, None, reg.loader_types[class_name])

\* --- instance registration (lines 102-132) ---
\* register_extractor rejects a non-str name and otherwise stores the
\* instance, overwriting one registered under the same name (a warning is
\* logged).
register_extractor(reg, extractor) ==
    IF ~IsStr(extractor.name) THEN Result(reg, "ConfigurationError", None)
    ELSE Result([reg EXCEPT !.extractors = Put(@, extractor.name, extractor)], None, None)

register_transformer_overwriting(reg, transformer) ==
    Result([reg EXCEPT !.transformers = Put(@, transformer.name, transformer)], None, None)

register_transformer(reg, transformer) ==
    IF transformer.name \in DOMAIN reg.transformers THEN Result(reg, "ConfigurationError", None)
    ELSE Result([reg EXCEPT !.transformers = Put(@, transformer.name, transformer)], None, None)

register_loader(reg, loader) ==
    IF loader.name \in DOMAIN reg.loaders THEN Result(reg, "ConfigurationError", None)
    ELSE Result([reg EXCEPT !.loaders = Put(@, loader.name, loader)], None, None)

register_pipeline(reg, pipeline) ==
    IF pipeline.name \in DOMAIN reg.pipelines THEN Result(reg, "ConfigurationError", None)
    ELSE Result([reg EXCEPT !.pipelines = Put(@, pipeline.name, pipeline)], None, None)

\* --- unregistration (lines 136-159) ---
unregister_extractor(reg, name) ==
    IF name \notin DOMAIN reg.extractors THEN Result(reg, "KeyError", None)
    ELSE Result([reg EXCEPT !.extractors = Del(@, name)], None, None)

unregister_transformer(reg, name) ==
    IF name \notin DOMAIN reg.transformers THEN Result(reg, "KeyError", None)
    ELSE Result([reg EXCEPT !.transformers = Del(@, name)], None, None)

unregister_loader_silently(reg, name) ==
    Result([reg EXCEPT !.loaders = Del(@, name)], None, None)

unregister_loader(reg, name) ==
    IF name \notin DOMAIN reg.loaders THEN Result(reg, "KeyError", None)
    ELSE Result([reg EXCEPT !.loaders = Del(@, name)], None, None)

unregister_pipeline(reg, name) ==
    IF name \notin DOMAIN reg.pipelines THEN Result(reg, "KeyError", None)
    ELSE Result([reg EXCEPT !.pipelines = Del(@, name)], None, None)

\* --- instance lookup (lines 163-185) ---
get_extractor(reg, name) ==
    IF name \notin DOMAIN reg.extractors THEN Result(reg, "KeyError", None)
    ELSE Result(reg, None, reg.extractors[name])
get_transformer(reg, name) ==
    IF name \notin DOMAIN reg.transformers THEN Result(reg, "KeyError", None)
    ELSE Result(reg, None, reg.transformers[name])
get_loader(reg, name) ==
    IF name \notin DOMAIN reg.loaders THEN Result(reg, "KeyError", None)
    ELSE Result(reg, None, reg.loaders[name])
get_pipeline(reg, name) ==
    IF name \notin DOMAIN reg.pipelines THEN Result(reg, "KeyError", None)
    ELSE Result(reg, None, reg.pipelines[name])

\* --- Registry.clear (lines 205-214) ---
clear(reg) == RegistryInit

\* --- reload (lines 218-293) ---
\* What discover_extractors / discover_transformers / discover_loaders gives
\* for the package on disk: a list of classes, or an exception
\* (ConfigurationError for a missing path or a failing import, any other
\* exception from the imported module's code).
RECURSIVE RegisterTypes(_, _, _)
RegisterTypes(d, classes, i) ==
    IF i > Len(classes) THEN d ELSE RegisterTypes(Put(d, classes[i].name, classes[i]), classes, i + 1)

\* The type store is cleared first; both except clauses only log.
reload_extractors_dropping_instances(reg, discovered) ==
    [reg EXCEPT !.extractors = EmptyDict,
                !.extractor_types =
                    IF discovered.exc # None THEN EmptyDict
                    ELSE RegisterTypes(EmptyDict, discovered.classes, 1)]

reload_extractors(reg, discovered) ==
    [reg EXCEPT !.extractor_types =
        IF discovered.exc # None THEN EmptyDict
        ELSE RegisterTypes(EmptyDict, discovered.classes, 1)]

reload_transformers(reg, discovered) ==
    [reg EXCEPT !.transformer_types =
        IF discovered.exc # None THEN EmptyDict
        ELSE RegisterTypes(EmptyDict, discovered.classes, 1)]

reload_loaders(reg, discovered) ==
    [reg EXCEPT !.loader_types =
        IF discovered.exc # None THEN EmptyDict
        ELSE RegisterTypes(EmptyDict, discovered.classes, 1)]

\* WorkflowManager.discover_components (workflow_manager.py lines 40-59).
discover_components(reg, de, dt, dl) ==
    reload_loaders(reload_transformers(reload_extractors(reg, de), dt), dl)

\* WorkflowManager.reload_components (workflow_manager.py lines 313-323).
reload_components(reg, de, dt, dl) == discover_components(reg, de, dt, dl)

(***************************************************************************)
(* WorkflowManager (workflows/core/workflow_manager.py): registry facade   *)
(***************************************************************************)

wm_register_extractor(reg, extractor) == register_extractor(reg, extractor)
wm_register_transformer(reg, transformer) == register_transformer(reg, transformer)
wm_register_loader(reg, loader) == register_loader(reg, loader)
wm_register_pipeline(reg, pipeline) == register_pipeline(reg, pipeline)
wm_get_extractor(reg, name) == get_extractor(reg, name)
wm_get_transformer(reg, name) == get_transformer(reg, name)
wm_get_loader(reg, name) == get_loader(reg, name)
wm_get_pipeline(reg, name) == get_pipeline(reg, name)
clear_registry(reg) == clear(reg)

(***************************************************************************)
(* The objects a caller of the manager holds, and the packages on disk     *)
(***************************************************************************)

\* A component instance (BaseExtractor.__init__ and its siblings): id is the
\* object's identity, cls its class name.
Instance(id, name, cls, config) == [id |-> id, name |-> name, cls |-> cls, config |-> config]

\* The loader of a Pipeline built with loader=None.
NoLoader == [id |-> None]

ExtractorObjects ==
    {Instance("e1", "a", "CsvExtractor", "c1"), Instance("e2", "a", "CsvExtractor", "c2"),
     Instance("e3", NonStrName, "CsvExtractor", "c1")}
TransformerObjects ==
    {Instance("t1", "a", "CleanTransformer", "c1"), Instance("t2", "a", "CleanTransformer", "c2")}
LoaderObjects ==
    {Instance("l1", "a", "DbLoader", "c1"), Instance("l2", "a", "DbLoader", "c2")}

\* Pipeline.__init__ (workflows/base.py lines 243-247).
PipelineObject(id, name, extractor, transformers, loader, config) ==
    [id |-> id, name |-> name, extractor |-> extractor, transformers |-> transformers,
     loader |-> loader, config |-> config]

PipelineObjects ==
    {PipelineObject("p1", "p", Instance("e1", "a", "CsvExtractor", "c1"),
                    <<Instance("t1", "a", "CleanTransformer", "c1"),
                      Instance("t3", "b", "CleanTransformer", "c1")>>,
                    Instance("l1", "a", "DbLoader", "c1"), "c1"),
     PipelineObject("p2", "p", Instance("e2", "a", "CsvExtractor", "c2"), <<>>, NoLoader, "c1")}

Names == {"a", "b"}
PipelineNames == {"p", "q"}

\* A discovered class: its __name__ and the module that defines it.
Class(name, module) == [name |-> name, module |-> module]

\* What discovery may find in a package: nothing, the package's class, or a
\* failure (reload handles ConfigurationError and any other exception alike:
\* it logs).
Discovered(exc, classes) == [exc |-> exc, classes |-> classes]
DiscoveryOutcomes(cls) ==
    {Discovered(None, <<>>), Discovered(None, <<Class(cls, "m")>>),
     Discovered("ConfigurationError", <<>>)}

(***************************************************************************)
(* Operations on the manager                                               *)
(***************************************************************************)

Op(op, store, name, arg, exc, ret) ==
    [op |-> op, store |-> store, name |-> name, arg |-> arg, exc |-> exc, ret |-> ret]

NoHistory == [s \in InstanceStores |-> EmptyDict]

\* A register call: the history records the instance when the call returned.
Registers(store, obj, r) ==
    /\ UNCHANGED exceptRegistry
    /\ registry' = r.reg
    /\ lastOp' = Op("register", store, obj.name, obj.id, r.exc, None)
    /\ registered' = IF r.exc = None THEN [registered EXCEPT ![store] = Put(@, obj.name, obj)]
                     ELSE registered

\* An unregister call: the history forgets the name when the call returned.
Unregisters(store, name, r) ==
    /\ UNCHANGED exceptRegistry
    /\ registry' = r.reg
    /\ lastOp' = Op("unregister", store, name, None, r.exc, None)
    /\ registered' = IF r.exc = None THEN [registered EXCEPT ![store] = Del(@, name)]
                     ELSE registered

Gets(store, name, r) ==
    /\ UNCHANGED exceptRegistry
    /\ registry' = r.reg
    /\ lastOp' = Op("get", store, name, None, r.exc, r.ret)
    /\ UNCHANGED registered

RegisterExtractor == \E e \in ExtractorObjects : Registers("extractors", e, wm_register_extractor(registry, e))
RegisterTransformer == \E t \in TransformerObjects : Registers("transformers", t, wm_register_transformer(registry, t))
RegisterLoader == \E l \in LoaderObjects : Registers("loaders", l, wm_register_loader(registry, l))
RegisterPipeline == \E p \in PipelineObjects : Registers("pipelines", p, wm_register_pipeline(registry, p))

UnregisterExtractor == \E n \in Names : Unregisters("extractors", n, unregister_extractor(registry, n))
UnregisterTransformer == \E n \in Names : Unregisters("transformers", n, unregister_transformer(registry, n))
UnregisterLoader == \E n \in Names : Unregisters("loaders", n, unregister_loader(registry, n))
UnregisterPipeline == \E n \in PipelineNames : Unregisters("pipelines", n, unregister_pipeline(registry, n))

GetExtractor == \E n \in Names : Gets("extractors", n, wm_get_extractor(registry, n))
GetTransformer == \E n \in Names : Gets("transformers", n, wm_get_transformer(registry, n))
GetLoader == \E n \in Names : Gets("loaders", n, wm_get_loader(registry, n))
GetPipeline == \E n \in PipelineNames : Gets("pipelines", n, wm_get_pipeline(registry, n))

ClearRegistry ==
    /\ UNCHANGED exceptRegistry
    /\ registry' = clear_registry(registry)
    /\ lastOp' = Op("clear", None, None, None, None, None)
    /\ registered' = NoHistory

Reloads(op, reg) ==
    /\ UNCHANGED exceptRegistry
    /\ registry' = reg
    /\ lastOp' = Op(op, None, None, None, None, None)
    /\ UNCHANGED registered

ReloadExtractors ==
    \E d \in DiscoveryOutcomes("CsvExtractor") : Reloads("reload_extractors", reload_extractors(registry, d))
ReloadTransformers ==
    \E d \in DiscoveryOutcomes("CleanTransformer") : Reloads("reload_transformers", reload_transformers(registry, d))
ReloadLoaders ==
    \E d \in DiscoveryOutcomes("DbLoader") : Reloads("reload_loaders", reload_loaders(registry, d))
DiscoverComponents ==
    \E de \in DiscoveryOutcomes("CsvExtractor"), dt \in DiscoveryOutcomes("CleanTransformer"),
       dl \in DiscoveryOutcomes("DbLoader") :
         Reloads("discover_components", discover_components(registry, de, dt, dl))
ReloadComponents ==
    \E de \in DiscoveryOutcomes("CsvExtractor"), dt \in DiscoveryOutcomes("CleanTransformer"),
       dl \in DiscoveryOutcomes("DbLoader") :
         Reloads("reload_components", reload_components(registry, de, dt, dl))

RegistryNext ==
    \/ RegisterExtractor \/ RegisterTransformer \/ RegisterLoader \/ RegisterPipeline
    \/ UnregisterExtractor \/ UnregisterTransformer \/ UnregisterLoader \/ UnregisterPipeline
    \/ GetExtractor \/ GetTransformer \/ GetLoader \/ GetPipeline
    \/ ClearRegistry
    \/ ReloadExtractors \/ ReloadTransformers \/ ReloadLoaders
    \/ DiscoverComponents \/ ReloadComponents

(***************************************************************************)
(* Claims about the Registry and the WorkflowManager facade                *)
(***************************************************************************)

ReloadOps ==
    {"reload_extractors", "reload_transformers", "reload_loaders",
     "discover_components", "reload_components"}

\* get(name) gives the instance the history holds for the name, and KeyError
\* when it holds none.
GetFollowsHistory ==
    lastOp.op = "get" =>
      IF lastOp.name \in DOMAIN registered[lastOp.store]
        THEN lastOp.exc = None /\ lastOp.ret = registered[lastOp.store][lastOp.name]
        ELSE lastOp.exc = "KeyError"

\* unregister of a name the history does not hold raises KeyError and
\* changes no store.
UnregisterUnknownIsKeyError ==
    (lastOp'.op = "unregister" /\ lastOp'.name \notin DOMAIN registered[lastOp'.store]) =>
      (lastOp'.exc = "KeyError" /\ registry' = registry)

\* C4: in each instance store, after any sequence of register, unregister
\* and clear, get(name) returns the instance registered under the name and
\* not unregistered or cleared since, and raises KeyError otherwise;
\* unregister of a name that is not registered raises KeyError and changes no
\* store.
C4_GetAndUnregisterFollowRegistrations ==
    [](GetFollowsHistory) /\ [][UnregisterUnknownIsKeyError]_vars

\* A get that returned the second transformer object named "a": the first one
\* was unregistered or cleared before.
C4_Witness ==
    /\ lastOp.op = "get"
    /\ lastOp.store = "transformers"
    /\ lastOp.exc = None
    /\ lastOp.ret.id = "t2"

\* C5: WorkflowManager.register_extractor raises ConfigurationError when an
\* extractor of that name is registered already, and the one registered
\* first stays.
C5_DuplicateExtractorIsRejected ==
    [][(/\ lastOp'.op = "register"
        /\ lastOp'.store = "extractors"
        /\ lastOp'.name \in DOMAIN registry.extractors)
       => (/\ lastOp'.exc = "ConfigurationError"
           /\ registry'.extractors = registry.extractors)]_vars

\* C6: registering a transformer, a loader or a pipeline under a name its
\* store holds raises ConfigurationError and leaves the whole registry as it
\* was.
C6_DuplicateRegistrationIsRejected ==
    [][(/\ lastOp'.op = "register"
        /\ lastOp'.store \in {"transformers", "loaders", "pipelines"}
        /\ lastOp'.name \in DOMAIN registry[lastOp'.store])
       => (/\ lastOp'.exc = "ConfigurationError"
           /\ registry' = registry)]_vars

\* The second pipeline object named "p" was refused while the first is
\* registered.
C6_Witness ==
    /\ lastOp.op = "register"
    /\ lastOp.store = "pipelines"
    /\ lastOp.arg = "p2"
    /\ lastOp.exc = "ConfigurationError"
    /\ registry.pipelines["p"].id = "p1"

\* C7: discover_components, reload_components and the three reload_* methods
\* leave the four instance stores as they were.
C7_DiscoveryKeepsInstanceStores ==
    [][lastOp'.op \in ReloadOps => \A s \in InstanceStores : registry'[s] = registry[s]]_vars

\* Components were reloaded with instances registered, and a type was found.
C7_Witness ==
    /\ lastOp.op = "reload_components"
    /\ registry.extractors # EmptyDict
    /\ registry.pipelines # EmptyDict
    /\ registry.extractor_types # EmptyDict
    /\ registry.loader_types = EmptyDict

(***************************************************************************)
(* TemplateParser.resolve_references            (workflows/templates.py)   *)
(*                                                                         *)
(* A template is the dict a YAML/JSON document parses to.  Its top-level   *)
(* dict and its component definitions are modelled by value; the pipeline  *)
(* dicts are modelled by reference (an address into heap), because         *)
(* resolve_references assigns to their keys.  A reference written as a     *)
(* string is Str(name); a reference written inline is the definition dict. *)
(***************************************************************************)

MaxResolves == 2

Str(n) == [str |-> n]
isinstance_str(v) == DOMAIN v = {"str"}
Definition(name, type, config) == [name |-> name, type |-> type, config |-> config]

\* dict.get(k, default)
Get(d, k, default) == IF k \in DOMAIN d THEN d[k] ELSE default

\* {e["name"]: e for e in defs}: a later definition of a name replaces an
\* earlier one.
RECURSIVE ByName(_)
ByName(defs) ==
    IF defs = <<>> THEN EmptyDict
    ELSE LET last == defs[Len(defs)]
         IN  Put(ByName(SubSeq(defs, 1, Len(defs) - 1)), last.name, last)

\* One pipeline dict after a part of the loop body, and the exception the
\* part raised (None when it completed).
Resolved(pipeline, exc) == [pipeline |-> pipeline, exc |-> exc]

\* if isinstance(pipeline["extractor"], str): ...
ResolveExtractor(pipeline, extractors) ==
    IF isinstance_str(pipeline.extractor)
    THEN LET extractor_name == pipeline.extractor.str
         IN  IF extractor_name \notin DOMAIN extractors
             THEN Resolved(pipeline, "ValidationError")
             ELSE Resolved(Put(pipeline, "extractor", extractors[extractor_name]), None)
    ELSE Resolved(pipeline, None)

\* for transformer in pipeline.get("transformers", []): ... append ...
RECURSIVE ResolveTransformerList(_, _, _)
ResolveTransformerList(refs, transformers, resolved_transformers) ==
    IF refs = <<>> THEN [list |-> resolved_transformers, exc |-> None]
    ELSE LET transformer == Head(refs)
         IN  IF isinstance_str(transformer)
             THEN IF transformer.str \notin DOMAIN transformers
                  THEN [list |-> resolved_transformers, exc |-> "ValidationError"]
                  ELSE ResolveTransformerList(Tail(refs), transformers,
                           Append(resolved_transformers, transformers[transformer.str]))
             ELSE ResolveTransformerList(Tail(refs), transformers,
                      Append(resolved_transformers, transformer))

\* A variant that looks every entry up by its name, inline or not.
ResolveTransformersByNameOnly(pipeline, transformers) ==
    LET refs == Get(pipeline, "transformers", <<>>)
        NameOf(ref) == IF isinstance_str(ref) THEN ref.str ELSE ref.name
    IN  IF \E i \in 1..Len(refs) : NameOf(refs[i]) \notin DOMAIN transformers
        THEN Resolved(pipeline, "ValidationError")
        ELSE Resolved(Put(pipeline, "transformers",
                          [i \in 1..Len(refs) |-> transformers[NameOf(refs[i])]]), None)

\* resolved_transformers = []; for ...; pipeline["transformers"] = resolved_transformers
ResolveTransformers(pipeline, transformers) ==
    LET r == ResolveTransformerList(Get(pipeline, "transformers", <<>>), transformers, <<>>)
    IN  IF r.exc # None
        THEN Resolved(pipeline, r.exc)
        ELSE Resolved(Put(pipeline, "transformers", r.list), None)

\* if "loader" in pipeline and isinstance(pipeline["loader"], str): ...
ResolveLoader(pipeline, loaders) ==
    IF "loader" \in DOMAIN pipeline /\ isinstance_str(pipeline.loader)
    THEN LET loader_name == pipeline.loader.str
         IN  IF loader_name \notin DOMAIN loaders
             THEN Resolved(pipeline, "ValidationError")
             ELSE Resolved(Put(pipeline, "loader", loaders[loader_name]), None)
    ELSE Resolved(pipeline, None)

\* The body of "for pipeline in result.get('pipelines', [])": the three
\* parts in order; a raise leaves the assignments already made.
ResolvePipeline(pipeline, extractors, transformers, loaders) ==
    LET e == ResolveExtractor(pipeline, extractors)
        t == ResolveTransformers(e.pipeline, transformers)
    IN  IF e.exc # None THEN e
        ELSE IF t.exc # None THEN t
        ELSE ResolveLoader(t.pipeline, loaders)

\* The loop over the pipeline dicts: each is updated where it lives.
RECURSIVE ResolvePipelines(_, _, _, _, _, _)
ResolvePipelines(addrs, i, h, extractors, transformers, loaders) ==
    IF i > Len(addrs) THEN [heap |-> h, exc |-> None]
    ELSE LET r == ResolvePipeline(h[addrs[i]], extractors, transformers, loaders)
             h2 == [h EXCEPT ![addrs[i]] = r.pipeline]
         IN  IF r.exc # None THEN [heap |-> h2, exc |-> r.exc]
             ELSE ResolvePipelines(addrs, i + 1, h2, extractors, transformers, loaders)

\* TemplateParser.resolve_references(template).  template.copy() makes a new
\* top-level dict whose values are the same objects: the same pipelines
\* list holding the same pipeline dicts.
resolve_references(tpl, h) ==
    LET result == tpl
        extractors == ByName(Get(tpl, "extractors", <<>>))
        transformers == ByName(Get(tpl, "transformers", <<>>))
        loaders == ByName(Get(tpl, "loaders", <<>>))
        r == ResolvePipelines(Get(result, "pipelines", <<>>), 1, h,
                              extractors, transformers, loaders)
    IN  [heap |-> r.heap, exc |-> r.exc, ret |-> IF r.exc = None THEN result ELSE NoTemplate]

\* A template as its holder reads it: the pipeline dicts in place of their
\* addresses.
Deref(tpl, h) ==
    IF "pipelines" \in DOMAIN tpl
    THEN Put(tpl, "pipelines", [i \in 1..Len(tpl.pipelines) |-> h[tpl.pipelines[i]]])
    ELSE tpl

\* ---- the templates resolve_references is called with ----
ExtractorDefinitionLists ==
    {<<>>, <<Definition("a", "E", "c1")>>,
     <<Definition("a", "E", "c1"), Definition("a", "E", "c2")>>}
TransformerDefinitionLists ==
    {<<>>, <<Definition("a", "T", "c1")>>,
     <<Definition("a", "T", "c1"), Definition("b", "T", "c2")>>}
LoaderDefinitionLists ==
    {<<>>, <<Definition("a", "L", "c1")>>}

ExtractorRefs == {Str("a"), Str("b"), Definition("x", "E", "c3")}
TransformerRefs == {Str("a"), Str("b"), Definition("x", "T", "c3")}
LoaderRefs == {Str("a"), Definition("x", "L", "c3")}

\* Pipeline dicts: "transformers" and "loader" are optional keys.
PipelineDicts ==
    LET base == {[name |-> "p", extractor |-> e] : e \in ExtractorRefs}
        withT == base \cup {Put(b, "transformers", ts) :
                             b \in base, ts \in SeqUpTo(TransformerRefs, MaxTransformers)}
    IN  withT \cup {Put(b, "loader", l) : b \in withT, l \in LoaderRefs}

SecondPipelineDicts ==
    {[name |-> "q", extractor |-> Str("a"), transformers |-> <<Str("a")>>],
     [name |-> "q", extractor |-> Str("b"), transformers |-> <<>>],
     [name |-> "q", extractor |-> Definition("x", "E", "c3"),
      transformers |-> <<Str("b")>>, loader |-> Str("a")]}

PipelineLists ==
    {<<>>} \cup {<<p>> : p \in PipelineDicts}
           \cup {<<p, q>> : p \in PipelineDicts, q \in SecondPipelineDicts}

NoResult == [exc |-> None, ret |-> NoTemplate]

\* resolve_references(template) on the caller's template.
ResolveReferences ==
    /\ resolveCalls < MaxResolves
    /\ LET r == resolve_references(template, heap)
       IN  /\ heap' = r.heap
           /\ resolved' = [exc |-> r.exc, ret |-> r.ret]
    /\ templateBefore' = Deref(template, heap)
    /\ resolveCalls' = resolveCalls + 1
    /\ UNCHANGED <<template, exceptTemplate>>

(***************************************************************************)
(* Claims about TemplateParser.resolve_references                          *)
(***************************************************************************)

\* The pipeline dicts of the template the latest call returned.
ReturnedPipelines ==
    [i \in 1..Len(resolved.ret.pipelines) |-> heap[resolved.ret.pipelines[i]]]

DefinitionsNamed(defs, n) == {defs[i] : i \in {j \in 1..Len(defs) : defs[j].name = n}}

StringRefDefined(ref, defs) ==
    isinstance_str(ref) => DefinitionsNamed(defs, ref.str) # {}

EveryStringRefDefined(t) ==
    \A i \in 1..Len(t.pipelines) :
        LET p == t.pipelines[i]
            ts == Get(p, "transformers", <<>>)
        IN  /\ StringRefDefined(p.extractor, t.extractors)
            /\ \A k \in 1..Len(ts) : StringRefDefined(ts[k], t.transformers)
            /\ "loader" \in DOMAIN p => StringRefDefined(p.loader, t.loaders)

RefResolved(before, after, defs) ==
    IF isinstance_str(before)
    THEN after \in DefinitionsNamed(defs, before.str)
    ELSE after = before

PipelineResolved(before, after, t) ==
    LET bts == Get(before, "transformers", <<>>)
        ats == Get(after, "transformers", <<>>)
    IN  /\ after.name = before.name
        /\ RefResolved(before.extractor, after.extractor, t.extractors)
        /\ Len(ats) = Len(bts)
        /\ \A k \in 1..Len(bts) : RefResolved(bts[k], ats[k], t.transformers)
        /\ "loader" \in DOMAIN before =>
               /\ "loader" \in DOMAIN after
               /\ RefResolved(before.loader, after.loader, t.loaders)

\* C8: resolve_references returns, for every pipeline of the template, the
\* pipeline with each string reference (extractor, each transformer at its
\* position, loader) replaced by a definition of that name from the
\* template's top-level list and each inline reference as it was; it raises
\* ValidationError exactly when some string reference names no definition.
C8_ReferencesAreResolved ==
    resolveCalls > 0 =>
        IF EveryStringRefDefined(templateBefore)
        THEN /\ resolved.exc = None
             /\ Len(ReturnedPipelines) = Len(templateBefore.pipelines)
             /\ \A i \in 1..Len(templateBefore.pipelines) :
                    PipelineResolved(templateBefore.pipelines[i], ReturnedPipelines[i],
                                     templateBefore)
        ELSE resolved.exc = "ValidationError"

\* A call that returned for a pipeline whose extractor and loader were names
\* and whose transformers were an inline definition followed by a name.
C8_Witness ==
    /\ resolveCalls = 1
    /\ resolved.exc = None
    /\ Len(templateBefore.pipelines) = 2
    /\ LET p == templateBefore.pipelines[1]
       IN  /\ p.extractor = Str("a")
           /\ "transformers" \in DOMAIN p
           /\ p.transformers = <<Definition("x", "T", "c3"), Str("b")>>
           /\ "loader" \in DOMAIN p
           /\ p.loader = Str("a")
    /\ ReturnedPipelines[1].transformers =
           <<Definition("x", "T", "c3"), Definition("b", "T", "c2")>>

\* C9: the template passed to resolve_references reads the same after the
\* call as on entry, whether the call returned or raised.
C9_InputTemplateUnchanged ==
    resolveCalls > 0 => Deref(template, heap) = templateBefore

(***************************************************************************)
(* WorkflowValidator.validate_pipeline   (workflows/tools/validator.py)    *)
(***************************************************************************)

hasattr(o, a) == a \in DOMAIN o

\* _validate_extractor: an extractor must have a truthy source (its extract
\* method is abstract in BaseExtractor, so it always exists).
validate_extractor(extractor) ==
    IF ~hasattr(extractor, "source") \/ extractor.source = "" THEN "ValidationError" ELSE None

\* validate_component: a truthy name, then the check of the component's base
\* class (isinstance); transformers and loaders only need their method.
validate_component(component, base) ==
    IF ~hasattr(component, "name") \/ component.name = "" THEN "ValidationError"
    ELSE IF base = "extractor" THEN validate_extractor(component)
    ELSE None

\* _validate_*_compatibility: checked only when both attributes exist.
FormatsCompatible(producer, consumer) ==
    (hasattr(consumer, "accepts_formats") /\ hasattr(producer, "output_format"))
        => producer.output_format \in consumer.accepts_formats

\* The extractor of a Pipeline built with extractor=None.
NoExtractor == [id |-> None]

\* Lines 137-143: every component is validated, the loader only when there is one.
ComponentsValidated(pipeline) ==
    /\ validate_component(pipeline.extractor, "extractor") = None
    /\ \A i \in 1..Len(pipeline.transformers) :
           validate_component(pipeline.transformers[i], "transformer") = None
    /\ pipeline.loader # NoLoader => validate_component(pipeline.loader, "loader") = None

\* Lines 145-156: the three compatibility checks of a pipeline with transformers.
StagesCompatible(pipeline) ==
    LET ts == pipeline.transformers
    IN  /\ FormatsCompatible(pipeline.extractor, ts[1])
        /\ \A i \in 1..(Len(ts) - 1) : FormatsCompatible(ts[i], ts[i + 1])
        /\ pipeline.loader # NoLoader => FormatsCompatible(ts[Len(ts)], pipeline.loader)

\* validate_pipeline without the check of line 134.
validate_pipeline_accepting_no_transformers(pipeline) ==
    IF pipeline.extractor = NoExtractor THEN "ValidationError"
    ELSE IF ~ComponentsValidated(pipeline) THEN "ValidationError"
    ELSE IF pipeline.transformers # <<>> /\ ~StagesCompatible(pipeline) THEN "ValidationError"
    ELSE None

\* validate_pipeline without the check of lines 155-156.
validate_pipeline_ignoring_loader_formats(pipeline) ==
    IF pipeline.extractor = NoExtractor \/ pipeline.transformers = <<>> THEN "ValidationError"
    ELSE IF ~ComponentsValidated(pipeline) THEN "ValidationError"
    ELSE IF ~StagesCompatible([pipeline EXCEPT !.loader = NoLoader]) THEN "ValidationError"
    ELSE None

\* validate_pipeline: the exception it raises, None when it returns True.
validate_pipeline(pipeline) ==
    IF pipeline.extractor = NoExtractor THEN "ValidationError"
    ELSE IF pipeline.transformers = <<>> THEN "ValidationError"
    ELSE IF ~ComponentsValidated(pipeline) THEN "ValidationError"
    ELSE IF ~StagesCompatible(pipeline) THEN "ValidationError"
    ELSE None

(***************************************************************************)
(* WorkflowManager.create_pipeline_from_template                           *)
(*                          (workflows/core/workflow_manager.py 109-282)   *)
(***************************************************************************)

MaxCreates == 2

\* The identity of the n-th object the manager constructs.
ObjectId(n) == "o" \o ToString(n)

\* component_class(name=comp_name, config=comp_config): the instance has the
\* attributes its class gives it.
Instantiate(cls, id, name, config) ==
    LET attrs == DOMAIN cls \ {"name", "module"}
    IN  [k \in {"id", "name", "cls", "config"} \cup attrs |->
            CASE k = "id" -> id
              [] k = "name" -> name
              [] k = "cls" -> cls.name
              [] k = "config" -> config
              [] OTHER -> cls[k]]

\* A template file that does not exist.
NoSuchFile == NoTemplate

\* TemplateParser.load_template
load_template(file) == IF file = NoSuchFile THEN "ConfigurationError" ELSE None

IsRef(v) == isinstance_str(v) \/ {"name", "type"} \subseteq DOMAIN v

\* TemplateParser.validate_template: the required keys of WORKFLOW_SCHEMA and
\* PIPELINE_SCHEMA and the oneOf of each reference.
validate_template(t) ==
    IF /\ {"version", "pipelines"} \subseteq DOMAIN t
       /\ \A i \in 1..Len(t.pipelines) :
            LET p == t.pipelines[i]
            IN  /\ {"name", "extractor", "transformers"} \subseteq DOMAIN p
                /\ IsRef(p.extractor)
                /\ \A k \in 1..Len(p.transformers) : IsRef(p.transformers[k])
                /\ "loader" \in DOMAIN p => IsRef(p.loader)
    THEN None
    ELSE "ValidationError"

\* What a step of the manager leaves: the registry, the exception raised
\* (None when it completed), the value returned, the next object identity.
Made(reg, exc, ret, id) == [reg |-> reg, exc |-> exc, ret |-> ret, nextId |-> id]

type_getter(component_key, reg, type_name) ==
    CASE component_key = "extractors" -> get_extractor_type(reg, type_name)
      [] component_key = "transformers" -> get_transformer_type(reg, type_name)
      [] component_key = "loaders" -> get_loader_type(reg, type_name)

instance_register(component_key, reg, instance) ==
    CASE component_key = "extractors" -> register_extractor(reg, instance)
      [] component_key = "transformers" -> register_transformer(reg, instance)
      [] component_key = "loaders" -> register_loader(reg, instance)

\* _instantiate_components_from_template: for each definition of the
\* section, look its class up, construct the instance, register it; an
\* unknown type or a failed registration raises ConfigurationError and the
\* instances registered before it stay.
RECURSIVE instantiate_components_from_template(_, _, _, _, _)
instantiate_components_from_template(reg, tpl, component_key, i, id) ==
    LET defs == Get(tpl, component_key, <<>>)
    IN  IF i > Len(defs) THEN Made(reg, None, None, id)
        ELSE LET component_data == defs[i]
                 comp_name == Get(component_data, "name", "")
                 comp_type_name == Get(component_data, "type", "")
                 comp_config == Get(component_data, "config", "{}")
                 cls == type_getter(component_key, reg, comp_type_name)
                 instance == Instantiate(cls.ret, ObjectId(id), comp_name, comp_config)
                 r == instance_register(component_key, reg, instance)
             IN  IF comp_name = "" \/ comp_type_name = "" THEN Made(reg, "ValidationError", None, id)
                 ELSE IF cls.exc # None THEN Made(reg, "ConfigurationError", None, id)
                 ELSE IF r.exc # None THEN Made(r.reg, "ConfigurationError", None, id + 1)
                 ELSE instantiate_components_from_template(r.reg, tpl, component_key, i + 1, id + 1)

\* "Get component NAME for registry lookup": a dict gives its name, a string
\* is the name.
NameToLookup(ref_obj) ==
    IF isinstance_str(ref_obj) THEN ref_obj.str ELSE Get(ref_obj, "name", "")

\* What a lookup of step 2 gives: the exception raised (None when found)
\* and the registry instance(s).
Found(exc, ret) == [exc |-> exc, ret |-> ret]

\* The extractor of the pipeline: the registry instance of the reference's
\* name; KeyError becomes ConfigurationError.
LookupExtractor(reg, pipeline_data) ==
    IF "extractor" \notin DOMAIN pipeline_data THEN Found("ValidationError", None)
    ELSE IF NameToLookup(pipeline_data.extractor) = "" THEN Found("ValidationError", None)
    ELSE IF get_extractor(reg, NameToLookup(pipeline_data.extractor)).exc # None
         THEN Found("ConfigurationError", None)
    ELSE Found(None, get_extractor(reg, NameToLookup(pipeline_data.extractor)).ret)

\* The transformer loop: the instances found, in order, or the first failure.
RECURSIVE LookupTransformers(_, _, _, _)
LookupTransformers(reg, refs, i, transformer_instances) ==
    IF i > Len(refs) THEN Found(None, transformer_instances)
    ELSE IF NameToLookup(refs[i]) = "" THEN Found("ValidationError", None)
    ELSE IF get_transformer(reg, NameToLookup(refs[i])).exc # None
         THEN Found("ConfigurationError", None)
    ELSE LookupTransformers(reg, refs, i + 1,
             Append(transformer_instances, get_transformer(reg, NameToLookup(refs[i])).ret))

\* The loader: None when the pipeline gives none ("if loader_ref_obj:").
LookupLoader(reg, pipeline_data) ==
    IF "loader" \notin DOMAIN pipeline_data \/ pipeline_data.loader = Null
    THEN Found(None, NoLoader)
    ELSE IF NameToLookup(pipeline_data.loader) = "" THEN Found("ValidationError", None)
    ELSE IF get_loader(reg, NameToLookup(pipeline_data.loader)).exc # None
         THEN Found("ConfigurationError", None)
    ELSE Found(None, get_loader(reg, NameToLookup(pipeline_data.loader)).ret)

\* self.register_pipeline(pipeline); return pipeline
RegisterBuilt(reg, r, pipeline, id) ==
    IF r.exc # None THEN Made(reg, r.exc, None, id) ELSE Made(r.reg, None, pipeline, id)

\* self.validator.validate_pipeline(pipeline), then the registration.
ValidateAndRegister(reg, pipeline, id) ==
    IF validate_pipeline(pipeline) # None THEN Made(reg, "ValidationError", None, id)
    ELSE RegisterBuilt(reg, wm_register_pipeline(reg, pipeline), pipeline, id)

\* The lookups in the order of the code (extractor, transformers, loader),
\* the first failure raised; then Pipeline(...).
Wire(reg, pipeline_data, id, e, ts, l) ==
    IF e.exc # None THEN Made(reg, e.exc, None, id)
    ELSE IF ts.exc # None THEN Made(reg, ts.exc, None, id)
    ELSE IF l.exc # None THEN Made(reg, l.exc, None, id)
    ELSE ValidateAndRegister(reg,
             PipelineObject(ObjectId(id), Get(pipeline_data, "name", "default_pipeline"),
                            e.ret, ts.ret, l.ret, Get(pipeline_data, "config", "{}")),
             id + 1)

\* Step 2 of create_pipeline_from_template: build the first pipeline of the
\* resolved template from registry instances, validate it, register it.
BuildPipeline(reg, resolved_template, id) ==
    IF Get(resolved_template, "pipelines", <<>>) = <<>> THEN Made(reg, "ValidationError", None, id)
    ELSE Wire(reg, resolved_template.pipelines[1], id,
              LookupExtractor(reg, resolved_template.pipelines[1]),
              LookupTransformers(reg, Get(resolved_template.pipelines[1], "transformers", <<>>),
                                 1, <<>>),
              LookupLoader(reg, resolved_template.pipelines[1]))

\* Step 1: the extractors, transformers and loaders sections in turn; the
\* first failure ends the call.
RECURSIVE InstantiateSections(_, _, _, _)
InstantiateSections(made, resolved_template, keys, k) ==
    IF made.exc # None \/ k > Len(keys) THEN made
    ELSE InstantiateSections(
             instantiate_components_from_template(made.reg, resolved_template, keys[k], 1,
                                                  made.nextId),
             resolved_template, keys, k + 1)

BuildIfInstantiated(made, resolved_template) ==
    IF made.exc # None THEN made
    ELSE BuildPipeline(made.reg, resolved_template, made.nextId)

CreateFromResolved(reg, res, id) ==
    IF res.exc # None THEN Made(reg, res.exc, None, id)
    ELSE BuildIfInstantiated(
             InstantiateSections(Made(reg, None, None, id), Deref(res.ret, res.heap),
                                 <<"extractors", "transformers", "loaders">>, 1),
             Deref(res.ret, res.heap))

\* create_pipeline_from_template(template_path): parse and validate the
\* file, resolve its references, instantiate and register the components of
\* the three top-level sections, then build the pipeline.  The parsed
\* template holds its pipeline dicts by address, as resolve_references
\* expects.
create_pipeline_from_template(reg, file, id) ==
    IF load_template(file) # None THEN Made(reg, load_template(file), None, id)
    ELSE IF validate_template(file) # None THEN Made(reg, "ValidationError", None, id)
    ELSE CreateFromResolved(reg,
             resolve_references([file EXCEPT !.pipelines = [i \in 1..Len(@) |-> i]],
                                file.pipelines),
             id)

\* ---- the template files create_pipeline_from_template is called with ----
\* The classes discovery has registered: an extractor class whose instances
\* have a source, one whose instances have none, a transformer class and a
\* loader class.
ManagerTypes ==
    [RegistryInit EXCEPT
        !.extractor_types = Put(Put(EmptyDict, "E", [name |-> "E", module |-> "m", source |-> "s"]),
                                "E0", Class("E0", "m")),
        !.transformer_types = Put(EmptyDict, "T", Class("T", "m")),
        !.loader_types = Put(EmptyDict, "L", Class("L", "m"))]

TopLevelSections ==
    {[extractors |-> <<>>, transformers |-> <<>>, loaders |-> <<>>],
     [extractors |-> <<Definition("a", "E", "c1")>>,
      transformers |-> <<Definition("a", "T", "c1"), Definition("b", "T", "c2")>>,
      loaders |-> <<Definition("a", "L", "c1")>>],
     [extractors |-> <<Definition("a", "E", "c1"), Definition("a", "E", "c2")>>,
      transformers |-> <<Definition("a", "T", "c1"), Definition("b", "T", "c2")>>,
      loaders |-> <<Definition("a", "L", "c1")>>],
     [extractors |-> <<Definition("a", "E0", "c1")>>,
      transformers |-> <<Definition("a", "T", "c1"), Definition("b", "T", "c2")>>,
      loaders |-> <<Definition("a", "Missing", "c1")>>]}

ManagerPipelineDicts ==
    LET base == {[name |-> "p", extractor |-> e, transformers |-> ts] :
                    e \in {Str("a"), Definition("x", "E", "c3")},
                    ts \in {<<>>, <<Str("a")>>, <<Str("b"), Str("a")>>,
                            <<Str("a"), Definition("x", "T", "c3")>>}}
    IN  base \cup {Put(b, "loader", l) : b \in base, l \in {Str("a"), Definition("x", "L", "c3")}}
             \cup {[name |-> "p", extractor |-> Str("a")]}

TemplateFiles ==
    {NoSuchFile} \cup
    {[version |-> "1.0", extractors |-> s.extractors, transformers |-> s.transformers,
      loaders |-> s.loaders, pipelines |-> ps] :
        s \in TopLevelSections,
        ps \in {<<>>} \cup {<<p>> : p \in ManagerPipelineDicts}
                     \cup {<<[name |-> "p", extractor |-> Str("a"),
                              transformers |-> <<Str("b")>>, loader |-> Str("a")],
                             [name |-> "q", extractor |-> Str("a"),
                              transformers |-> <<Str("a")>>]>>}}

\* The history after a manager call: what the call registered is recorded.
Recorded(before, after) ==
    [s \in InstanceStores |->
        [n \in DOMAIN registered[s] \cup {m \in DOMAIN after[s] :
                                            m \notin DOMAIN before[s] \/ before[s][m] # after[s][m]} |->
            IF n \in DOMAIN after[s] /\ (n \notin DOMAIN before[s] \/ before[s][n] # after[s][n])
            THEN after[s][n] ELSE registered[s][n]]]

\* manager.create_pipeline_from_template(file), the file taken from files.
CreatesPipelineFrom(files) ==
    /\ creates < MaxCreates
    /\ \E file \in files :
        LET r == create_pipeline_from_template(registry, file, nextId)
        IN  /\ registry' = r.reg
            /\ nextId' = r.nextId
            /\ registered' = Recorded(registry, r.reg)
            /\ lastOp' = Op("create_pipeline_from_template", "pipelines", None, file, r.exc,
                          IF r.exc = None THEN r.ret ELSE NoPipeline)
    /\ creates' = creates + 1
    /\ UNCHANGED exceptManager

CreatePipelineFromTemplate == CreatesPipelineFrom(TemplateFiles)

\* The template files of a manager that is also driven through its registry:
\* one that defines every component its pipeline names, and one that defines
\* none and names components registered by hand.
IntegrityFiles ==
    {[version |-> "1.0",
      extractors |-> <<Definition("a", "E", "c1")>>,
      transformers |-> <<Definition("a", "T", "c1"), Definition("b", "T", "c2")>>,
      loaders |-> <<Definition("a", "L", "c1")>>,
      pipelines |-> <<[name |-> "p", extractor |-> Str("a"),
                       transformers |-> <<Str("b"), Str("a")>>, loader |-> Str("a")]>>],
     [version |-> "1.0", extractors |-> <<>>, transformers |-> <<>>, loaders |-> <<>>,
      pipelines |-> <<[name |-> "q", extractor |-> Str("a"), transformers |-> <<Str("a")>>]>>]}

CreatePipelineFromIntegrityFile == CreatesPipelineFrom(IntegrityFiles)

(***************************************************************************)
(* Claims about WorkflowManager.create_pipeline_from_template              *)
(***************************************************************************)

IsInline(ref) == ~isinstance_str(ref)

\* The references a pipeline dict makes to the components of one section.
RefsOf(p, component_key) ==
    CASE component_key = "extractors" -> <<p.extractor>>
      [] component_key = "transformers" -> p.transformers
      [] component_key = "loaders" -> IF "loader" \in DOMAIN p THEN <<p.loader>> ELSE <<>>

RECURSIVE AllRefs(_, _, _)
AllRefs(ps, component_key, i) ==
    IF i > Len(ps) THEN <<>>
    ELSE RefsOf(ps[i], component_key) \o AllRefs(ps, component_key, i + 1)

HasInline(file) ==
    /\ load_template(file) = None
    /\ validate_template(file) = None
    /\ \E key \in {"extractors", "transformers", "loaders"} :
           \E i \in 1..Len(AllRefs(file.pipelines, key, 1)) :
               IsInline(AllRefs(file.pipelines, key, 1)[i])

ByItsName(ref) == IF IsInline(ref) THEN Str(ref.name) ELSE ref

\* The same template written with names only: every inline definition is
\* moved to the top-level list of its section and referenced by its name.
WrittenByName(file) ==
    [file EXCEPT
        !.extractors = @ \o SelectSeq(AllRefs(file.pipelines, "extractors", 1), IsInline),
        !.transformers = @ \o SelectSeq(AllRefs(file.pipelines, "transformers", 1), IsInline),
        !.loaders = @ \o SelectSeq(AllRefs(file.pipelines, "loaders", 1), IsInline),
        !.pipelines = [i \in 1..Len(@) |->
            [k \in DOMAIN @[i] |->
                CASE k = "extractor" -> ByItsName(@[i].extractor)
                  [] k = "transformers" ->
                        [j \in 1..Len(@[i].transformers) |-> ByItsName(@[i].transformers[j])]
                  [] k = "loader" -> ByItsName(@[i].loader)
                  [] OTHER -> @[i][k]]]]

\* What a pipeline is made of: name, class and config of each component.
Described(c) == IF c = NoLoader THEN <<>> ELSE <<c.name, c.cls, c.config>>
Wiring(pipeline) ==
    <<pipeline.name, Described(pipeline.extractor),
      [i \in 1..Len(pipeline.transformers) |-> Described(pipeline.transformers[i])],
      Described(pipeline.loader)>>

\* C10: when create_pipeline_from_template builds the pipeline of a template
\* written with names only, it also builds the pipeline of the same template
\* with components given inline: the call returns a pipeline with the same
\* components (name, class, config) in the same places.
C10_InlineComponentsAreInstantiated ==
    [][(/\ lastOp'.op = "create_pipeline_from_template"
        /\ HasInline(lastOp'.arg)
        /\ create_pipeline_from_template(registry, WrittenByName(lastOp'.arg), nextId).exc = None)
       => /\ lastOp'.exc = None
          /\ Wiring(lastOp'.ret) =
                 Wiring(create_pipeline_from_template(registry, WrittenByName(lastOp'.arg),
                                                      nextId).ret)]_vars

\* The sections of a template file and the registry store of each.
ComponentKeys == {"extractors", "transformers", "loaders"}

\* The registry holds an instance for the definition: its name, its type,
\* its config.
DefinitionRegistered(reg, component_key, d) ==
    /\ d.name \in DOMAIN reg[component_key]
    /\ reg[component_key][d.name].name = d.name
    /\ reg[component_key][d.name].cls = d.type
    /\ reg[component_key][d.name].config = d.config

NameOfRef(ref) == IF isinstance_str(ref) THEN ref.str ELSE ref.name

\* The pipeline is wired to the registry instances its template names.
WiredToRegistry(reg, pipeline, pipeline_data) ==
    /\ pipeline.name = pipeline_data.name
    /\ pipeline.name \in DOMAIN reg.pipelines
    /\ reg.pipelines[pipeline.name] = pipeline
    /\ NameOfRef(pipeline_data.extractor) \in DOMAIN reg.extractors
    /\ pipeline.extractor = reg.extractors[NameOfRef(pipeline_data.extractor)]
    /\ Len(pipeline.transformers) = Len(pipeline_data.transformers)
    /\ \A i \in 1..Len(pipeline_data.transformers) :
           /\ NameOfRef(pipeline_data.transformers[i]) \in DOMAIN reg.transformers
           /\ pipeline.transformers[i] = reg.transformers[NameOfRef(pipeline_data.transformers[i])]
    /\ IF "loader" \in DOMAIN pipeline_data
       THEN /\ NameOfRef(pipeline_data.loader) \in DOMAIN reg.loaders
            /\ pipeline.loader = reg.loaders[NameOfRef(pipeline_data.loader)]
       ELSE pipeline.loader = NoLoader

CreateSucceeded == lastOp.op = "create_pipeline_from_template" /\ lastOp.exc = None

\* C11: after a successful create_pipeline_from_template, every definition of
\* the template's extractors, transformers and loaders sections is a registry
\* instance under its name with its type and config, and the returned
\* pipeline is the template's first pipeline, registered under its name and
\* wired to the registry instances of the names it references, transformers
\* in template order.
C11_SuccessRegistersEverything ==
    CreateSucceeded =>
        /\ \A key \in ComponentKeys :
               \A i \in 1..Len(lastOp.arg[key]) :
                   DefinitionRegistered(registry, key, lastOp.arg[key][i])
        /\ WiredToRegistry(registry, lastOp.ret, lastOp.arg.pipelines[1])

\* A successful call on a template of two pipelines whose first pipeline
\* has a transformer and a loader.
C11_Witness ==
    /\ CreateSucceeded
    /\ Len(lastOp.arg.pipelines) = 2
    /\ lastOp.ret.name = "p"
    /\ lastOp.ret.transformers[1].name = "b"
    /\ lastOp.ret.loader # NoLoader
    /\ DOMAIN registry.transformers = {"a", "b"}

\* The component is the very object the store holds under the component's
\* name (instances are compared with their identity).
IsRegisteredInstance(store, component) ==
    /\ component.name \in DOMAIN store
    /\ store[component.name] = component

\* C22: in every state reached by create_pipeline_from_template, register_*,
\* unregister_* and reload calls on one manager, the extractor, each
\* transformer and the loader of every registered pipeline are the instances
\* the registry currently holds under their names.
C22_ReferentialIntegrity ==
    \A n \in DOMAIN registry.pipelines :
        LET pipeline == registry.pipelines[n]
        IN  /\ IsRegisteredInstance(registry.extractors, pipeline.extractor)
            /\ \A i \in 1..Len(pipeline.transformers) :
                   IsRegisteredInstance(registry.transformers, pipeline.transformers[i])
            /\ pipeline.loader # NoLoader =>
                   IsRegisteredInstance(registry.loaders, pipeline.loader)

CreateRaised == lastOp.op = "create_pipeline_from_template" /\ lastOp.exc # None

\* C23: a create_pipeline_from_template call that raises leaves the
\* registry's extractor, transformer, loader and pipeline stores as they were
\* before the call.
C23_CreateIsAllOrNothing ==
    [][(creates' = creates + 1 /\ CreateRaised')
         => \A s \in InstanceStores : registry'[s] = registry[s]]_<<creates, vars>>

(***************************************************************************)
(* WorkflowManager.create_template_from_pipeline and TemplateGenerator     *)
(*                (workflow_manager.py 325-386, templates.py 234-350)      *)
(***************************************************************************)

\* TemplateGenerator.generate_*_template: {"name", "type", "config": config or {}}
generate_extractor_template(name, type_name, config) == Definition(name, type_name, config)
generate_transformer_template(name, type_name, config) == Definition(name, type_name, config)
generate_loader_template(name, type_name, config) == Definition(name, type_name, config)

\* TemplateGenerator.generate_pipeline_template: every key is written, the
\* loader also when it is None.
generate_pipeline_template(name, extractor, transformers, loader, description, config, metadata) ==
    [name |-> name, description |-> description, extractor |-> extractor,
     transformers |-> transformers, loader |-> loader, config |-> config,
     metadata |-> metadata]

\* TemplateGenerator.generate_workflow_template
generate_workflow_template(name, description, version, extractors, transformers, loaders, pipelines) ==
    [name |-> name, description |-> description, version |-> version,
     extractors |-> extractors, transformers |-> transformers, loaders |-> loaders,
     pipelines |-> pipelines]

\* What create_template_from_pipeline leaves: the exception raised (None when
\* it returned) and the document save_template wrote to output_path.
Saved(exc, file) == [exc |-> exc, file |-> file]

\* The document written for a pipeline object.
TemplateOfPipeline(pipeline) ==
    LET ts == pipeline.transformers
        hasLoader == pipeline.loader # NoLoader
    IN  generate_workflow_template(
            "workflow", "generated", "1.0.0",
            <<generate_extractor_template(pipeline.extractor.name, pipeline.extractor.cls,
                                          pipeline.extractor.config)>>,
            [i \in 1..Len(ts) |->
                generate_transformer_template(ts[i].name, ts[i].cls, ts[i].config)],
            IF hasLoader
            THEN <<generate_loader_template(pipeline.loader.name, pipeline.loader.cls,
                                            pipeline.loader.config)>>
            ELSE <<>>,
            <<generate_pipeline_template(
                  pipeline.name, Str(pipeline.extractor.name),
                  [i \in 1..Len(ts) |-> Str(ts[i].name)],
                  IF hasLoader THEN Str(pipeline.loader.name) ELSE Null,
                  "generated", pipeline.config, "generated")>>)

\* create_template_from_pipeline(pipeline_name, output_path): KeyError for an
\* unknown pipeline, otherwise the document is saved.
create_template_from_pipeline(reg, pipeline_name) ==
    IF get_pipeline(reg, pipeline_name).exc # None THEN Saved("KeyError", NoSuchFile)
    ELSE Saved(None, TemplateOfPipeline(get_pipeline(reg, pipeline_name).ret))

\* ---- the pipelines a manager may hold ----
RoundTripExtractors ==
    {Instantiate([name |-> "E", module |-> "m", source |-> "s"], "e1", "a", "c1"),
     Instantiate(Class("E0", "m"), "e2", "a", "c2")}
RoundTripTransformers ==
    {Instantiate(Class("T", "m"), "t1", "a", "c1"), Instantiate(Class("T", "m"), "t2", "b", "c2")}
RoundTripLoaders ==
    {NoLoader, Instantiate(Class("L", "m"), "l1", "a", "c1")}

RoundTripPipelines ==
    {PipelineObject("p1", "p", e, ts, l, "c1") :
        e \in RoundTripExtractors, ts \in SeqUpTo(RoundTripTransformers, MaxTransformers),
        l \in RoundTripLoaders}

\* The registry of a manager that holds the discovered types, the pipeline
\* and the pipeline's components.
RegistryHolding(pipeline) ==
    [ManagerTypes EXCEPT
        !.extractors = Put(EmptyDict, pipeline.extractor.name, pipeline.extractor),
        !.transformers = [n \in {pipeline.transformers[i].name :
                                    i \in 1..Len(pipeline.transformers)} |->
                             CHOOSE t \in RoundTripTransformers : t.name = n],
        !.loaders = IF pipeline.loader = NoLoader THEN EmptyDict
                    ELSE Put(EmptyDict, pipeline.loader.name, pipeline.loader),
        !.pipelines = Put(EmptyDict, pipeline.name, pipeline)]

\* A manager with the same types and no instances.
SameTypesNoInstances(reg) ==
    [reg EXCEPT !.extractors = EmptyDict, !.transformers = EmptyDict,
                !.loaders = EmptyDict, !.pipelines = EmptyDict]

NothingSaved == Saved(None, NoSuchFile)
NotRebuilt == [done |-> FALSE, exc |-> None, ret |-> NoPipeline, reg |-> RegistryInit]

\* manager.create_template_from_pipeline(pipeline_name, output_path)
CreateTemplateFromPipeline ==
    /\ ~rebuilt.done
    /\ \E pipeline_name \in PipelineNames :
           saved' = create_template_from_pipeline(registry, pipeline_name)
    /\ UNCHANGED <<rebuilt, exceptRoundTrip>>

\* A second manager, with the same types and no instances, is given the
\* saved document: create_pipeline_from_template(output_path).
RebuildFromTemplate ==
    /\ ~rebuilt.done
    /\ LET r == create_pipeline_from_template(SameTypesNoInstances(registry), saved.file, 1)
       IN  rebuilt' = [done |-> TRUE, exc |-> r.exc,
                       ret |-> IF r.exc = None THEN r.ret ELSE NoPipeline, reg |-> r.reg]
    /\ UNCHANGED <<saved, exceptRoundTrip>>

(***************************************************************************)
(* Claims about the pipeline -> template -> pipeline round trip            *)
(***************************************************************************)

TemplateSaved == saved.exc = None /\ saved.file # NoSuchFile

\* The registered pipeline the saved document was generated from.
TemplatedPipeline == registry.pipelines[saved.file.pipelines[1].name]

\* C12: the document create_template_from_pipeline writes for a registered
\* pipeline passes validate_template, and create_pipeline_from_template on it
\* in a manager with the same types and no instances returns a pipeline of
\* the same name with the same components (name, type, config) in the same
\* order.
C12_TemplateRoundTrip ==
    /\ TemplateSaved => validate_template(saved.file) = None
    /\ (TemplateSaved /\ rebuilt.done) =>
           /\ rebuilt.exc = None
           /\ Wiring(rebuilt.ret) = Wiring(TemplatedPipeline)

(***************************************************************************)
(* WorkflowValidator.validate_pipeline on arbitrary pipelines              *)
(*                                   (workflows/tools/validator.py 116-234) *)
(***************************************************************************)

\* The longest transformer list handed to the validator.
MaxChain == 2

Formats == {"list_of_dicts", "dict"}

\* A component with the attributes its class sets in __init__.
Declaring(component, attribute, value) == component @@ (attribute :> value)

\* Extractors: none at all, without a name, without a source, and with a
\* source and any (or no) declared output_format.
ValidatorExtractors ==
    {NoExtractor, [name |-> "", source |-> "s"], [name |-> "e"]}
    \cup {[name |-> "e", source |-> "s"]}
    \cup {Declaring([name |-> "e", source |-> "s"], "output_format", f) : f \in Formats}

\* Transformers: each of accepts_formats and output_format declared or not.
ValidatorTransformers ==
    LET plain == [name |-> "t"]
        accepting == {plain} \cup {Declaring(plain, "accepts_formats", {f}) : f \in Formats}
    IN  {[name |-> ""]} \cup accepting
        \cup {Declaring(t, "output_format", f) : t \in accepting, f \in Formats}

\* Loaders: none, without a name, and with any (or no) accepts_formats.
ValidatorLoaders ==
    {NoLoader, [name |-> ""], [name |-> "l"]}
    \cup {Declaring([name |-> "l"], "accepts_formats", {f}) : f \in Formats}

TransformerLists == UNION {[1..n -> ValidatorTransformers] : n \in 0..MaxChain}

ValidatorPipelines ==
    {PipelineObject("p1", "p", e, ts, l, "c1") :
        e \in ValidatorExtractors, ts \in TransformerLists, l \in ValidatorLoaders}

NotValidated == [called |-> FALSE, exc |-> None, ret |-> FALSE]

\* validator.validate_pipeline(candidate)
ValidatePipeline ==
    /\ ~verdict.called
    /\ verdict' = [called |-> TRUE, exc |-> validate_pipeline(candidate),
                   ret |-> validate_pipeline(candidate) = None]
    /\ UNCHANGED <<candidate, exceptValidator>>

(***************************************************************************)
(* Claims about validate_pipeline                                          *)
(***************************************************************************)

\* Every component of the pipeline passes validate_component.
EveryComponentPasses(pipeline) ==
    /\ pipeline.extractor # NoExtractor
    /\ validate_component(pipeline.extractor, "extractor") = None
    /\ \A i \in 1..Len(pipeline.transformers) :
           validate_component(pipeline.transformers[i], "transformer") = None
    /\ pipeline.loader # NoLoader => validate_component(pipeline.loader, "loader") = None

\* C13: validate_pipeline raises ValidationError for a pipeline without an
\* extractor and for one whose transformer list is empty; it returns True only
\* when the pipeline has an extractor, at least one transformer, and every
\* component passes validate_component.
C13_IncompletePipelineRejected ==
    verdict.called =>
        /\ candidate.extractor = NoExtractor => verdict.exc = "ValidationError"
        /\ candidate.transformers = <<>> => verdict.exc = "ValidationError"
        /\ verdict.ret =>
               /\ verdict.exc = None
               /\ candidate.extractor # NoExtractor
               /\ Len(candidate.transformers) >= 1
               /\ EveryComponentPasses(candidate)

\* A pipeline without an extractor, with a valid transformer, was rejected.
C13_Witness ==
    /\ verdict.called
    /\ candidate.extractor = NoExtractor
    /\ candidate.transformers = <<[name |-> "t"]>>
    /\ verdict.exc = "ValidationError"

\* The adjacent stages of a pipeline, as <<producer, consumer>> pairs.
AdjacentStages(pipeline) ==
    LET ts == pipeline.transformers
    IN  (IF ts # <<>> THEN {<<pipeline.extractor, ts[1]>>} ELSE {})
        \cup {<<ts[i], ts[i + 1]>> : i \in 1..(Len(ts) - 1)}
        \cup (IF ts # <<>> /\ pipeline.loader # NoLoader
              THEN {<<ts[Len(ts)], pipeline.loader>>} ELSE {})

\* Both formats are declared and the produced one is not accepted.
Mismatch(pair) ==
    /\ "output_format" \in DOMAIN pair[1]
    /\ "accepts_formats" \in DOMAIN pair[2]
    /\ pair[1].output_format \notin pair[2].accepts_formats

\* Some adjacent pair of stages is declared and mismatched.
SomeMismatch(pipeline) == \E pair \in AdjacentStages(pipeline) : Mismatch(pair)

\* C14 as stated: for a pipeline whose components individually pass
\* validation, validate_pipeline raises ValidationError if and only if some
\* adjacent pair of stages declares both formats and the producer's
\* output_format is not among the consumer's accepts_formats.
C14_RejectedIffFormatsMismatch ==
    (verdict.called /\ EveryComponentPasses(candidate)) =>
        (verdict.exc = "ValidationError" <=> SomeMismatch(candidate))

\* C14 amended: the same, for a pipeline that also has at least one
\* transformer (an empty transformer list is rejected whatever the formats);
\* a pair where either declaration is absent is never the reason of a
\* rejection.
C14_RejectedIffFormatsMismatchAmended ==
    (verdict.called /\ EveryComponentPasses(candidate) /\ candidate.transformers # <<>>) =>
        (verdict.exc = "ValidationError" <=> SomeMismatch(candidate))

\* Valid components, the second transformer does not accept what the first
\* produces, the loader declares nothing: rejected.
C14_Witness ==
    /\ verdict.called
    /\ EveryComponentPasses(candidate)
    /\ Len(candidate.transformers) = 2
    /\ Mismatch(<<candidate.transformers[1], candidate.transformers[2]>>)
    /\ candidate.loader = [name |-> "l"]
    /\ verdict.exc = "ValidationError"

(***************************************************************************)
(* WorkflowDiscovery and WorkflowFileHandler: hot reloading                *)
(*                                      (data_warehouse/workflow/discovery.py) *)
(*                                                                         *)
(* Time is counted in seconds.  The main thread calls start_watching,      *)
(* discover_workflows and reload_workflows; the observer                   *)
(* thread delivers file events to the handler of the watched directory;    *)
(* every scheduled threading.Timer is a thread of its own that runs        *)
(* reload_workflows some time after it was started.                        *)
(***************************************************************************)

\* WorkflowFileHandler.cooldown_period (seconds).
cooldown_period == 2

\* The latest second the clock reaches.
MaxTime == 3

\* The number of timer threads that are ever started.
MaxTimers == 2

\* The number of calls the main thread makes to the WorkflowDiscovery.
MaxCalls == 2

\* package_paths, the directory of each package and the module in it with
\* the workflow class it defines.
Packages == <<"pkgA", "pkgB">>
Directories == {Packages[i] : i \in DOMAIN Packages}
ModulesOf == [pkgA |-> <<"pkgA.flows">>, pkgB |-> <<"pkgB.flows">>]
Modules == UNION {{ModulesOf[p][i] : i \in DOMAIN ModulesOf[p]} : p \in Directories}
WorkflowClassOf(module) == IF module = "pkgA.flows" THEN "FlowA" ELSE "FlowB"

\* module_path not in self.discovered_modules
NotDiscovered == -1

MainThread == "main"
TimerThread(i) == "timer" \o ToString(i)
TimerThreads == {TimerThread(i) : i \in 1..MaxTimers}
Threads == {MainThread} \cup TimerThreads

\* threading.RLock: its owner and how often the owner has acquired it.
Unlocked == [owner |-> None, count |-> 0]
LockAvailable(l, t) == l.owner \in {None, t}
\* (a lock that lets everyone in)
AcquireNothing(l, t) == l
Acquire(l, t) == [owner |-> t, count |-> l.count + 1]
Release(l) == IF l.count <= 1 THEN Unlocked ELSE [l EXCEPT !.count = @ - 1]

\* Where a thread is: at is "new" (a timer not started), "timer" (started,
\* not yet in reload_workflows), "lock" (at the with-statement of reload_workflows),
\* "reload" (inside it, before package number pkg), "register" (in
\* discover_workflows outside any reload, the module imported, its file's
\* timestamp read: file_timestamp), "idle"/"done".
At(at, pkg, discovered) ==
    [at |-> at, pkg |-> pkg, discovered |-> discovered, file_timestamp |-> 0]

\* _import_module_workflows's loop body for the one class of the module:
\* registry.register under the lock.  log gets the lock's owner during the call.
RegisterUnderLock(reg, log, l, t, module) ==
    [workflows |-> reg \cup {WorkflowClassOf(module)},
     log |-> log \cup {[thread |-> t, owner |-> Acquire(l, t).owner]}]

\* Lines 76-82: the module is skipped when it was processed and its file has
\* not changed since.
Skipped(dm, mt, module) == dm[module] # NotDiscovered /\ dm[module] >= mt[module]

\* discover_workflows(package_path), lines 64-92, from module number i on:
\* the classes found, the registry, the timestamps and the register log.
RECURSIVE DiscoverFrom(_, _, _, _, _, _, _, _, _)
DiscoverFrom(package, i, found, reg, dm, mt, log, l, t) ==
    IF i > Len(ModulesOf[package])
    THEN [found |-> found, workflows |-> reg, discovered_modules |-> dm, log |-> log]
    ELSE LET module == ModulesOf[package][i]
         IN  IF Skipped(dm, mt, module)
             THEN DiscoverFrom(package, i + 1, found, reg, dm, mt, log, l, t)
             ELSE DiscoverFrom(package, i + 1,
                               Append(found, WorkflowClassOf(module)),
                               RegisterUnderLock(reg, log, l, t, module).workflows,
                               [dm EXCEPT ![module] = mt[module]], mt,
                               RegisterUnderLock(reg, log, l, t, module).log, l, t)

discover_workflows(package, reg, dm, mt, log, l, t) ==
    DiscoverFrom(package, 1, <<>>, reg, dm, mt, log, l, t)

\* start_watching's loop over package_paths (lines 174-182), from package i on.
RECURSIVE InitialDiscovery(_, _, _, _, _, _, _)
InitialDiscovery(i, reg, dm, mt, log, l, t) ==
    IF i > Len(Packages)
    THEN [workflows |-> reg, discovered_modules |-> dm, log |-> log]
    ELSE InitialDiscovery(i + 1,
                          discover_workflows(Packages[i], reg, dm, mt, log, l, t).workflows,
                          discover_workflows(Packages[i], reg, dm, mt, log, l, t).discovered_modules,
                          mt,
                          discover_workflows(Packages[i], reg, dm, mt, log, l, t).log, l, t)

\* The register calls of the latest step that made any.
Logged(log, calls_made) == IF calls_made = {} THEN log ELSE calls_made

NotReloaded == [called |-> FALSE, ret |-> <<>>]

\* start_watching(package_paths): under the lock, the initial discovery and
\* one new WorkflowFileHandler (last_reload_time 0) per watched directory.
StartWatching ==
    /\ calls < MaxCalls
    /\ calls' = calls + 1
    /\ ~watching
    /\ threads[MainThread].at = "idle"
    /\ LockAvailable(lock, MainThread)
    /\ LET r == InitialDiscovery(1, workflows, discovered_modules, mtime, {},
                                 Acquire(lock, MainThread), MainThread)
       IN  /\ workflows' = r.workflows
           /\ discovered_modules' = r.discovered_modules
           /\ registerLog' = Logged(registerLog, r.log)
    /\ last_reload_time' = [d \in Directories |-> 0]
    /\ watching' = TRUE
    /\ UNCHANGED <<now, mtime, threads, lock, scheduled, reloaded, pendingEvent, exceptDiscovery>>

\* One second passes.
Tick ==
    /\ now < MaxTime
    /\ now' = now + 1
    /\ UNCHANGED <<calls, mtime, discovered_modules, watching, last_reload_time, threads, lock,
                   workflows, scheduled, registerLog, reloaded, pendingEvent, exceptDiscovery>>

\* The events of a directory: a change of its module file, and events
\* _should_process_event refuses (a directory; a file that is not *.py or
\* whose name starts with "_" or ".").
EventKinds == {"module", "directory", "other_file"}
should_process_event(kind) == kind = "module"

\* _debounced_reload at time current_time of the handler with this
\* last_reload_time: whether a Timer is started.
Debounced(current_time, last) == current_time - last < cooldown_period

\* A file event in a directory (on_modified / on_created -> _debounced_reload).
\* A change of the module file sets its modification time, watched or not.
FileEvent(dir, kind) ==
    /\ mtime' = IF kind = "module"
                THEN [mtime EXCEPT ![ModulesOf[dir][1]] = now] ELSE mtime
    /\ IF watching /\ should_process_event(kind) /\ ~Debounced(now, last_reload_time[dir])
       THEN \E i \in 1..MaxTimers :
               /\ threads[TimerThread(i)].at = "new"
               /\ \A j \in 1..(i - 1) : threads[TimerThread(j)].at # "new"
               /\ threads' = [threads EXCEPT ![TimerThread(i)] = At("timer", 0, <<>>)]
               /\ last_reload_time' = [last_reload_time EXCEPT ![dir] = now]
               /\ scheduled' = Append(scheduled, [time |-> now, dir |-> dir])
       ELSE UNCHANGED <<threads, last_reload_time, scheduled>>
    /\ pendingEvent' = (pendingEvent \/ (watching /\ should_process_event(kind)))
    /\ UNCHANGED <<calls, now, discovered_modules, watching, lock, workflows, registerLog,
                   reloaded, exceptDiscovery>>

\* The main thread calls reload_workflows(package_paths).
CallReloadWorkflows ==
    /\ calls < MaxCalls
    /\ calls' = calls + 1
    /\ threads[MainThread].at = "idle"
    /\ threads' = [threads EXCEPT ![MainThread] = At("lock", 0, <<>>)]
    /\ UNCHANGED <<now, mtime, discovered_modules, watching, last_reload_time, lock,
                   workflows, scheduled, registerLog, reloaded, pendingEvent, exceptDiscovery>>

\* reload_workflows line 220: with self._lock, reached by the main thread
\* after its call and by a timer thread when its timer has expired
\* (_reload_workflows, lines 312-316).
EnterReload(t) ==
    /\ threads[t].at \in {"timer", "lock"}
    /\ LockAvailable(lock, t)
    /\ lock' = Acquire(lock, t)
    /\ threads' = [threads EXCEPT ![t] = At("reload", 1, <<>>)]
    /\ pendingEvent' = FALSE
    /\ UNCHANGED <<calls, now, mtime, discovered_modules, watching, last_reload_time,
                   workflows, scheduled, registerLog, reloaded, exceptDiscovery>>

\* reload_workflows lines 223-224: discover_workflows of the next package.
ReloadPackage(t) ==
    /\ threads[t].at = "reload"
    /\ threads[t].pkg <= Len(Packages)
    /\ LET r == discover_workflows(Packages[threads[t].pkg], workflows, discovered_modules,
                                   mtime, {}, lock, t)
       IN  /\ workflows' = r.workflows
           /\ discovered_modules' = r.discovered_modules
           /\ registerLog' = Logged(registerLog, r.log)
           /\ threads' = [threads EXCEPT ![t] = At("reload", @.pkg + 1, @.discovered \o r.found)]
    /\ UNCHANGED <<calls, now, mtime, watching, last_reload_time, lock, scheduled, reloaded,
                   pendingEvent, exceptDiscovery>>

\* reload_workflows lines 226-230: the callback, the return of the list, and
\* the release of the lock.
ReturnFromReload(t) ==
    /\ threads[t].at = "reload"
    /\ threads[t].pkg > Len(Packages)
    /\ reloaded' = [called |-> TRUE, ret |-> threads[t].discovered]
    /\ lock' = Release(lock)
    /\ threads' = [threads EXCEPT ![t] = At(IF t = MainThread THEN "idle" ELSE "done", 0, <<>>)]
    /\ UNCHANGED <<calls, now, mtime, discovered_modules, watching, last_reload_time,
                   workflows, scheduled, registerLog, pendingEvent, exceptDiscovery>>

\* The main thread calls discover_workflows(package) itself, outside any
\* lock: lines 64-85 up to the import of a module that is not skipped.
CallDiscoverWorkflows(p) ==
    /\ calls < MaxCalls
    /\ calls' = calls + 1
    /\ threads[MainThread].at = "idle"
    /\ ~Skipped(discovered_modules, mtime, ModulesOf[Packages[p]][1])
    /\ threads' = [threads EXCEPT ![MainThread] =
                       [At("register", p, <<>>) EXCEPT
                           !.file_timestamp = mtime[ModulesOf[Packages[p]][1]]]]
    /\ UNCHANGED <<now, mtime, discovered_modules, watching, last_reload_time, lock,
                   workflows, scheduled, registerLog, reloaded, pendingEvent, exceptDiscovery>>

\* ... and lines 145-148, 89: the class is registered under the lock and the
\* module's timestamp (read before the import) is stored.
RegisterDiscovered ==
    /\ threads[MainThread].at = "register"
    /\ LockAvailable(lock, MainThread)
    /\ LET module == ModulesOf[Packages[threads[MainThread].pkg]][1]
           r == RegisterUnderLock(workflows, {}, lock, MainThread, module)
       IN  /\ workflows' = r.workflows
           /\ registerLog' = Logged(registerLog, r.log)
           /\ discovered_modules' =
                  [discovered_modules EXCEPT ![module] = threads[MainThread].file_timestamp]
    /\ threads' = [threads EXCEPT ![MainThread] = At("idle", 0, <<>>)]
    /\ UNCHANGED <<calls, now, mtime, watching, last_reload_time, lock, scheduled, reloaded,
                   pendingEvent, exceptDiscovery>>

(***************************************************************************)
(* Claims about hot reloading                                              *)
(***************************************************************************)

\* C15: while watching, at most one reload is scheduled within any cooldown
\* period, however many relevant events arrive and in whichever watched
\* directory: any two timers were started at least cooldown_period apart.
C15_OneReloadPerCooldown ==
    \A i, j \in DOMAIN scheduled :
        i < j => scheduled[j].time - scheduled[i].time >= cooldown_period

\* Two reloads were scheduled, by the handlers of two directories.
C15_Witness ==
    /\ Len(scheduled) = 2
    /\ scheduled[1].dir # scheduled[2].dir

InReload(t) == threads[t].at = "reload"

\* C16: at most one execution of reload_workflows is in progress at any time,
\* timer threads included, and every registry.register call made by the
\* discovery happens while the calling thread holds the lock.
C16_ReloadsExcludeEachOther ==
    /\ \A t, u \in Threads : (InReload(t) /\ InReload(u)) => t = u
    /\ \A t \in Threads : InReload(t) => lock.owner = t
    /\ \A c \in registerLog : c.owner = c.thread

\* A timer thread is inside reload_workflows and has registered a class,
\* while the main thread waits at the lock of its own reload_workflows call.
C16_Witness ==
    \E t \in TimerThreads :
        /\ InReload(t)
        /\ registerLog = {[thread |-> t, owner |-> t]}
        /\ threads[MainThread].at = "lock"

\* All workflow classes of the packages.
AllWorkflowClasses == {WorkflowClassOf(m) : m \in Modules}

\* C18: reload_workflows returns all workflow classes of the given packages,
\* including those whose module files did not change since the previous
\* discovery.
C18_ReloadReturnsAllWorkflows ==
    reloaded.called =>
        {reloaded.ret[i] : i \in DOMAIN reloaded.ret} = AllWorkflowClasses

\* reload_workflows returned while every class was registered.
C18_Witness ==
    /\ reloaded.called
    /\ workflows = AllWorkflowClasses

\* C24: while watching, every relevant file event (a create or modify of a
\* non-hidden .py file) is eventually followed by a reload_workflows run that
\* begins after the event.
C24_NoChangeLostByDebouncing == pendingEvent ~> ~pendingEvent

(***************************************************************************)
(* WorkflowWatcher (data_warehouse/workflows/watcher.py)                   *)
(*                                                                         *)
(* The watcher owns one watchdog Observer, created in __init__.  An        *)
(* Observer is a threading.Thread: it can be started once, and start() on  *)
(* a thread that was started before raises RuntimeError.                   *)
(***************************************************************************)

\* The most reload_callback calls that are recorded.
MaxEvents == 2

\* self.directories: one that exists and one that does not.
WatcherDirectories == {"workflows/extractors", "workflows/missing"}
IsDir(directory) == directory # "workflows/missing"

\* self.file_patterns (line 132).
file_patterns == {".py", ".yaml", ".yml", ".json"}

\* Paths of file events, as the text before the last suffix and the suffix;
\* NoPath is an event without src_path.
Path(stem, suffix) == [stem |-> stem, suffix |-> suffix]
NoPath == Path("", "")
EventPaths ==
    {Path("workflows/extractors/a", ".py"), Path("workflows/extractors/t", ".yaml"),
     Path("workflows/extractors/notes", ".md"), NoPath}

\* _is_relevant_file: the path is not empty and ends with one of the patterns.
is_relevant_file(path) == path # NoPath /\ path.suffix \in file_patterns

\* WorkflowWatcher.__init__: the fields start() and stop() use.
NewWatcher == [running |-> FALSE, observer |-> "initial", watches |-> {}]

\* start(): what it raises and the watcher afterwards.
start(w) ==
    IF w.running THEN [exc |-> None, watcher |-> w]
    ELSE LET scheduled_w == [w EXCEPT !.watches = @ \cup {d \in WatcherDirectories : IsDir(d)}]
         IN  IF w.observer = "initial"
             THEN [exc |-> None,
                   watcher |-> [scheduled_w EXCEPT !.observer = "started", !.running = TRUE]]
             ELSE [exc |-> "RuntimeError", watcher |-> scheduled_w]

\* stop(): what it raises and the watcher afterwards.
stop(w) ==
    IF ~w.running THEN [exc |-> None, watcher |-> w]
    ELSE [exc |-> None, watcher |-> [w EXCEPT !.observer = "stopped", !.running = FALSE]]

\* stop() that leaves a running watcher running.
stop_without_effect(w) == [exc |-> None, watcher |-> w]

Called(op, exc, before) == [op |-> op, exc |-> exc, before |-> before]

\* watcher.start()
Start ==
    /\ watcher' = start(watcher).watcher
    /\ lastCall' = Called("start", start(watcher).exc, watcher)
    /\ UNCHANGED <<inBlock, reloads, exceptWatcher>>

\* watcher.stop()
Stop ==
    /\ watcher' = stop(watcher).watcher
    /\ lastCall' = Called("stop", stop(watcher).exc, watcher)
    /\ UNCHANGED <<inBlock, reloads, exceptWatcher>>

\* with watcher: -- __enter__ calls start(); the block is entered when it returns.
Enter ==
    /\ ~inBlock
    /\ watcher' = start(watcher).watcher
    /\ inBlock' = (start(watcher).exc = None)
    /\ lastCall' = Called("__enter__", start(watcher).exc, watcher)
    /\ UNCHANGED <<reloads, exceptWatcher>>

\* The with-block ends, normally or by an exception (raised): __exit__ calls
\* stop() and returns None, so the exception of the block propagates.
Exit(raised) ==
    /\ inBlock
    /\ watcher' = stop(watcher).watcher
    /\ inBlock' = FALSE
    /\ lastCall' = Called("__exit__", IF raised THEN "Exception" ELSE stop(watcher).exc, watcher)
    /\ UNCHANGED <<reloads, exceptWatcher>>

\* The started observer delivers an event of a watched directory to the
\* handler (on_modified / on_created / on_deleted), which calls
\* _on_file_changed for a relevant file; an exception of reload_callback is
\* caught there.
FileChanged(path, is_directory, callback_raises) ==
    /\ watcher.observer = "started"
    /\ watcher.watches # {}
    /\ Len(reloads) < MaxEvents
    /\ reloads' = IF ~is_directory /\ is_relevant_file(path)
                  THEN Append(reloads, path) ELSE reloads
    /\ UNCHANGED <<watcher, inBlock, lastCall, exceptWatcher>>

(***************************************************************************)
(* Claims about the watcher                                                *)
(***************************************************************************)

\* C17: _running is False after construction, True after start(), False
\* after stop(); start() while running and stop() while not running change
\* nothing; leaving a with-block leaves the watcher not running, also when
\* the block raised.
C17_WatcherLifecycle ==
    /\ lastCall.op = "__init__" => ~watcher.running
    /\ lastCall.op = "start" => watcher.running
    /\ lastCall.op = "stop" => ~watcher.running
    /\ (lastCall.op = "start" /\ lastCall.before.running) => watcher = lastCall.before
    /\ (lastCall.op = "stop" /\ ~lastCall.before.running) => watcher = lastCall.before
    /\ lastCall.op = "__exit__" => ~watcher.running

\* A with-block that raised was left, and the watcher had been running in it.
C17_Witness ==
    /\ lastCall = Called("__exit__", "Exception", [NewWatcher EXCEPT
                      !.running = TRUE, !.observer = "started",
                      !.watches = {"workflows/extractors"}])
    /\ ~watcher.running

(***************************************************************************)
(* APIClient._make_request (data_warehouse/sources/api_client.py 41-96)    *)
(***************************************************************************)

\* The largest retry_count a caller passes.
MaxRetryCount == 3

\* method.upper(): GET and POST are supported (lines 74-79).
Methods == {"GET", "POST", "PUT"}
Supported(method) == method \in {"GET", "POST"}

\* What one HTTP attempt does: the response parses ("ok"), or a
\* RequestException is raised by the session call ("connection_error"), by
\* raise_for_status ("http_error") or by response.json() ("invalid_json").
Outcomes == {"ok", "connection_error", "http_error", "invalid_json"}

\* response.json() of the n-th HTTP attempt; Body(0) stands for None.
Body(n) == [attempt |-> n]

NoCall == [at |-> "idle", method |-> "GET", retry_count |-> 0, attempts |-> 0]
NoResponse == [kind |-> "none", value |-> Body(0), exc |-> None]

\* client._make_request(method, endpoint, retry_count=retry_count): lines 66-67.
MakeRequest(method, retry_count) ==
    /\ request.at # "loop"
    /\ request' = [at |-> "loop", method |-> method, retry_count |-> retry_count,
                   attempts |-> 0]
    /\ httpLog' = <<>>
    /\ response' = NoResponse
    /\ UNCHANGED exceptApi

\* One iteration of the while loop (lines 69-96) with a supported method:
\* the attempt succeeds and its parsed response is returned, or it fails and
\* is counted, and ValueError is raised when the count reaches retry_count.
Attempt(result) ==
    /\ request.at = "loop"
    /\ request.attempts < request.retry_count
    /\ Supported(request.method)
    /\ httpLog' = Append(httpLog, result)
    /\ IF result = "ok"
       THEN /\ request' = [request EXCEPT !.at = "done"]
            /\ response' = [kind |-> "returned", value |-> Body(Len(httpLog) + 1),
                            exc |-> None]
       ELSE /\ request' = [request EXCEPT
                              !.attempts = @ + 1,
                              !.at = IF request.attempts + 1 >= request.retry_count
                                     THEN "done" ELSE "loop"]
            /\ response' = IF request.attempts + 1 >= request.retry_count
                           THEN [kind |-> "raised", value |-> Body(0), exc |-> "ValueError"]
                           ELSE response
    /\ UNCHANGED exceptApi

\* An iteration with another method: ValueError (line 79), which is no
\* RequestException and leaves the function.
UnsupportedMethod ==
    /\ request.at = "loop"
    /\ request.attempts < request.retry_count
    /\ ~Supported(request.method)
    /\ request' = [request EXCEPT !.at = "done"]
    /\ response' = [kind |-> "raised", value |-> Body(0), exc |-> "ValueError"]
    /\ UNCHANGED <<httpLog, exceptApi>>

\* The loop condition is false (line 69): the function ends without a return
\* statement and so returns None.
LoopEnds ==
    /\ request.at = "loop"
    /\ request.attempts >= request.retry_count
    /\ request' = [request EXCEPT !.at = "done"]
    /\ response' = [kind |-> "returned", value |-> Body(0), exc |-> None]
    /\ UNCHANGED <<httpLog, exceptApi>>

(***************************************************************************)
(* Claims about _make_request                                              *)
(***************************************************************************)

Failed(i) == httpLog[i] # "ok"

\* C19: for every retry_count >= 0, _make_request makes at most retry_count
\* HTTP attempts; it returns the parsed response of the first attempt that
\* succeeds, raises ValueError once retry_count attempts have failed with a
\* request error, and never returns without a response.
C19_BoundedRetries ==
    /\ Len(httpLog) <= request.retry_count
    /\ \A i \in 1..(Len(httpLog) - 1) : Failed(i)
    /\ (Len(httpLog) >= 1 /\ ~Failed(Len(httpLog))) =>
           response = [kind |-> "returned", value |-> Body(Len(httpLog)), exc |-> None]
    /\ (/\ request.at = "done" /\ Supported(request.method)
        /\ Len(httpLog) = request.retry_count
        /\ (\A i \in DOMAIN httpLog : Failed(i))) =>
           response.kind = "raised" /\ response.exc = "ValueError"
    /\ response.kind = "returned" => response.value # Body(0)

\* Two attempts failed and the third one's response was returned.
C19_Witness ==
    /\ httpLog = <<"http_error", "connection_error", "ok">>
    /\ response = [kind |-> "returned", value |-> Body(3), exc |-> None]

(***************************************************************************)
(* WorkflowBase.execute (data_warehouse/workflow/base.py 79-127)           *)
(*                                                                         *)
(* extract, transform and load are abstract: a step returns any context or *)
(* raises an Exception.                                                    *)
(***************************************************************************)

\* The most execute() calls on the workflow.
MaxExecutes == 2

\* WorkflowStatus (lines 32-39).
PENDING == "pending"
RUNNING == "running"
COMPLETED == "completed"
FAILED == "failed"

\* The WorkflowContext objects: the one made by __init__ and those a step
\* may return.
InitialContext == "context0"
Contexts == {"context0", "context1", "context2"}

\* The ETL steps in a different order.
StepsLoadBeforeTransform == <<"extract", "load", "transform">>

\* The ETL steps in the order execute calls them (lines 116-118).
Steps == <<"extract", "transform", "load">>

\* WorkflowBase.__init__ (lines 82-87); next is the number of the step that
\* execute calls next, 0 outside execute.
NewWorkflow == [status |-> PENDING, context |-> InitialContext, next |-> 0]

StepCall(step, arg, ret, exc) == [step |-> step, arg |-> arg, ret |-> ret, exc |-> exc]
NotExecuted == [kind |-> "none", value |-> None, exc |-> None, entered |-> InitialContext]

\* execute() is called: line 112.
BeginExecute ==
    /\ workflow.next = 0
    /\ executes < MaxExecutes
    /\ executes' = executes + 1
    /\ workflow' = [workflow EXCEPT !.status = RUNNING, !.next = 1]
    /\ trace' = <<>>
    /\ executed' = [NotExecuted EXCEPT !.entered = workflow.context]
    /\ UNCHANGED exceptWorkflow

\* The next step is called on self.context and returns ret, which becomes
\* self.context (lines 116-118); after load, lines 120-122.
StepReturns(ret) ==
    /\ workflow.next \in DOMAIN Steps
    /\ trace' = Append(trace, StepCall(Steps[workflow.next], workflow.context, ret, None))
    /\ IF workflow.next < Len(Steps)
       THEN /\ workflow' = [workflow EXCEPT !.context = ret, !.next = @ + 1]
            /\ UNCHANGED executed
       ELSE /\ workflow' = [workflow EXCEPT !.context = ret, !.next = 0, !.status = COMPLETED]
            /\ executed' = [executed EXCEPT !.kind = "returned", !.value = ret]
    /\ UNCHANGED <<executes, exceptWorkflow>>

\* The next step raises an Exception: lines 124-127.
StepRaises ==
    /\ workflow.next \in DOMAIN Steps
    /\ trace' = Append(trace, StepCall(Steps[workflow.next], workflow.context, None, "Exception"))
    /\ workflow' = [workflow EXCEPT !.next = 0, !.status = FAILED]
    /\ executed' = [executed EXCEPT !.kind = "raised", !.exc = "WorkflowError"]
    /\ UNCHANGED <<executes, exceptWorkflow>>

(***************************************************************************)
(* Claims about WorkflowBase.execute                                       *)
(***************************************************************************)

\* extract, transform and load were called in that order, each on the
\* context the previous one returned (extract on the context execute found),
\* and all returned.
AllStepsRan ==
    /\ Len(trace) = 3
    /\ \A i \in 1..3 : trace[i].exc = None
    /\ trace[1].step = "extract" /\ trace[2].step = "transform" /\ trace[3].step = "load"
    /\ trace[1].arg = executed.entered
    /\ trace[2].arg = trace[1].ret
    /\ trace[3].arg = trace[2].ret

ExecuteEnded == executes > 0 /\ workflow.next = 0

\* C20: status is PENDING after construction and RUNNING once execute has
\* started; at the end of execute it is COMPLETED if and only if extract,
\* transform and load were called in that order, each on the context
\* returned by the previous one, and all returned; otherwise it is FAILED and
\* WorkflowError is raised; no step is called after a step failed.
C20_StatusLifecycle ==
    /\ executes = 0 => workflow.status = PENDING
    /\ workflow.next # 0 => workflow.status = RUNNING
    /\ ExecuteEnded =>
           /\ workflow.status = COMPLETED <=> AllStepsRan
           /\ workflow.status = COMPLETED => executed.kind = "returned"
           /\ workflow.status # COMPLETED =>
                  /\ workflow.status = FAILED
                  /\ executed.kind = "raised" /\ executed.exc = "WorkflowError"
    /\ \A i \in 1..(Len(trace) - 1) : trace[i].exc = None

\* transform raised in a second execute: FAILED, and load was not called.
C20_Witness ==
    /\ executes = 2
    /\ workflow.status = FAILED
    /\ Len(trace) = 2
    /\ trace[2] = StepCall("transform", "context1", None, "Exception")
    /\ executed.exc = "WorkflowError"

(***************************************************************************)
(* Specifications                                                          *)
(***************************************************************************)

\* A Pipeline with up to MaxTransformers transformers, with or without a
\* loader, executed up to MaxRuns times.
PipelineInitState ==
    /\ pipe \in {PipelineInit(ts, l) : ts \in SeqUpTo(TransformerIds, MaxTransformers), l \in BOOLEAN}
    /\ lastRun = [c \in Components |-> None]
    /\ clock = 0
    /\ callLog = <<>>
    /\ outcome = [kind |-> "none", exc |-> None, value |-> None]
    /\ runs = 0
    /\ registry = RegistryInit
    /\ registered = NoHistory
    /\ lastOp = Op("init", None, None, None, None, None)
    /\ nextId = 0
    /\ creates = 0
    /\ template = NoTemplate
    /\ heap = <<>>
    /\ templateBefore = NoTemplate
    /\ resolved = NoResult
    /\ resolveCalls = 0
    /\ saved = NothingSaved
    /\ rebuilt = NotRebuilt
    /\ candidate = NoPipeline
    /\ verdict = NotValidated
    /\ calls = 0
    /\ now = cooldown_period
    /\ mtime = [m \in Modules |-> 0]
    /\ discovered_modules = [m \in Modules |-> NotDiscovered]
    /\ watching = FALSE
    /\ last_reload_time = [d \in Directories |-> 0]
    /\ threads = [t \in Threads |-> At(IF t = MainThread THEN "idle" ELSE "new", 0, <<>>)]
    /\ lock = Unlocked
    /\ workflows = {}
    /\ scheduled = <<>>
    /\ registerLog = {}
    /\ reloaded = NotReloaded
    /\ pendingEvent = FALSE
    /\ watcher = NewWatcher
    /\ inBlock = FALSE
    /\ lastCall = Called("__init__", None, NewWatcher)
    /\ reloads = <<>>
    /\ request = NoCall
    /\ httpLog = <<>>
    /\ response = NoResponse
    /\ workflow = NewWorkflow
    /\ executes = 0
    /\ trace = <<>>
    /\ executed = NotExecuted

PipelineNext == Execute

SpecPipeline == PipelineInitState /\ [][PipelineNext]_vars

\* A fresh WorkflowManager driven through its registry operations.
RegistryInitState ==
    /\ pipe = PipelineInit(<<>>, FALSE)
    /\ lastRun = [c \in Components |-> None]
    /\ clock = 0
    /\ callLog = <<>>
    /\ outcome = [kind |-> "none", exc |-> None, value |-> None]
    /\ runs = 0
    /\ registry = RegistryInit
    /\ registered = NoHistory
    /\ lastOp = Op("init", None, None, None, None, None)
    /\ nextId = 0
    /\ creates = 0
    /\ template = NoTemplate
    /\ heap = <<>>
    /\ templateBefore = NoTemplate
    /\ resolved = NoResult
    /\ resolveCalls = 0
    /\ saved = NothingSaved
    /\ rebuilt = NotRebuilt
    /\ candidate = NoPipeline
    /\ verdict = NotValidated
    /\ calls = 0
    /\ now = cooldown_period
    /\ mtime = [m \in Modules |-> 0]
    /\ discovered_modules = [m \in Modules |-> NotDiscovered]
    /\ watching = FALSE
    /\ last_reload_time = [d \in Directories |-> 0]
    /\ threads = [t \in Threads |-> At(IF t = MainThread THEN "idle" ELSE "new", 0, <<>>)]
    /\ lock = Unlocked
    /\ workflows = {}
    /\ scheduled = <<>>
    /\ registerLog = {}
    /\ reloaded = NotReloaded
    /\ pendingEvent = FALSE
    /\ watcher = NewWatcher
    /\ inBlock = FALSE
    /\ lastCall = Called("__init__", None, NewWatcher)
    /\ reloads = <<>>
    /\ request = NoCall
    /\ httpLog = <<>>
    /\ response = NoResponse
    /\ workflow = NewWorkflow
    /\ executes = 0
    /\ trace = <<>>
    /\ executed = NotExecuted

SpecRegistry == RegistryInitState /\ [][RegistryNext]_vars

\* A caller holding one template calls resolve_references on it, up to
\* MaxResolves times.
TemplateInitState ==
    /\ \E es \in ExtractorDefinitionLists, ts \in TransformerDefinitionLists,
          ls \in LoaderDefinitionLists, ps \in PipelineLists :
          /\ template = [version |-> "1.0", extractors |-> es, transformers |-> ts,
                         loaders |-> ls, pipelines |-> [i \in 1..Len(ps) |-> i]]
          /\ heap = ps
    /\ pipe = PipelineInit(<<>>, FALSE)
    /\ lastRun = [c \in Components |-> None]
    /\ clock = 0
    /\ callLog = <<>>
    /\ outcome = [kind |-> "none", exc |-> None, value |-> None]
    /\ runs = 0
    /\ registry = RegistryInit
    /\ registered = NoHistory
    /\ lastOp = Op("init", None, None, None, None, None)
    /\ nextId = 0
    /\ creates = 0
    /\ templateBefore = NoTemplate
    /\ resolved = NoResult
    /\ resolveCalls = 0
    /\ saved = NothingSaved
    /\ rebuilt = NotRebuilt
    /\ candidate = NoPipeline
    /\ verdict = NotValidated
    /\ calls = 0
    /\ now = cooldown_period
    /\ mtime = [m \in Modules |-> 0]
    /\ discovered_modules = [m \in Modules |-> NotDiscovered]
    /\ watching = FALSE
    /\ last_reload_time = [d \in Directories |-> 0]
    /\ threads = [t \in Threads |-> At(IF t = MainThread THEN "idle" ELSE "new", 0, <<>>)]
    /\ lock = Unlocked
    /\ workflows = {}
    /\ scheduled = <<>>
    /\ registerLog = {}
    /\ reloaded = NotReloaded
    /\ pendingEvent = FALSE
    /\ watcher = NewWatcher
    /\ inBlock = FALSE
    /\ lastCall = Called("__init__", None, NewWatcher)
    /\ reloads = <<>>
    /\ request = NoCall
    /\ httpLog = <<>>
    /\ response = NoResponse
    /\ workflow = NewWorkflow
    /\ executes = 0
    /\ trace = <<>>
    /\ executed = NotExecuted

TemplateNext == ResolveReferences

SpecTemplate == TemplateInitState /\ [][TemplateNext]_vars

\* A manager whose registry holds the discovered types and no instance,
\* asked up to MaxCreates times to create a pipeline from a template file.
ManagerInitState ==
    /\ registry = ManagerTypes
    /\ lastOp = Op("init", "pipelines", None, NoSuchFile, None, NoPipeline)
    /\ nextId = 1
    /\ pipe = PipelineInit(<<>>, FALSE)
    /\ lastRun = [c \in Components |-> None]
    /\ clock = 0
    /\ callLog = <<>>
    /\ outcome = [kind |-> "none", exc |-> None, value |-> None]
    /\ runs = 0
    /\ registered = NoHistory
    /\ creates = 0
    /\ template = NoTemplate
    /\ heap = <<>>
    /\ templateBefore = NoTemplate
    /\ resolved = NoResult
    /\ resolveCalls = 0
    /\ saved = NothingSaved
    /\ rebuilt = NotRebuilt
    /\ candidate = NoPipeline
    /\ verdict = NotValidated
    /\ calls = 0
    /\ now = cooldown_period
    /\ mtime = [m \in Modules |-> 0]
    /\ discovered_modules = [m \in Modules |-> NotDiscovered]
    /\ watching = FALSE
    /\ last_reload_time = [d \in Directories |-> 0]
    /\ threads = [t \in Threads |-> At(IF t = MainThread THEN "idle" ELSE "new", 0, <<>>)]
    /\ lock = Unlocked
    /\ workflows = {}
    /\ scheduled = <<>>
    /\ registerLog = {}
    /\ reloaded = NotReloaded
    /\ pendingEvent = FALSE
    /\ watcher = NewWatcher
    /\ inBlock = FALSE
    /\ lastCall = Called("__init__", None, NewWatcher)
    /\ reloads = <<>>
    /\ request = NoCall
    /\ httpLog = <<>>
    /\ response = NoResponse
    /\ workflow = NewWorkflow
    /\ executes = 0
    /\ trace = <<>>
    /\ executed = NotExecuted

ManagerNext == CreatePipelineFromTemplate

SpecManager == ManagerInitState /\ [][ManagerNext]_vars

\* A manager holding one pipeline and its components writes the pipeline's
\* template; a second manager with the same types rebuilds from it.
RoundTripInitState ==
    /\ registry \in {RegistryHolding(p) : p \in RoundTripPipelines}
    /\ pipe = PipelineInit(<<>>, FALSE)
    /\ lastRun = [c \in Components |-> None]
    /\ clock = 0
    /\ callLog = <<>>
    /\ outcome = [kind |-> "none", exc |-> None, value |-> None]
    /\ runs = 0
    /\ registered = NoHistory
    /\ lastOp = Op("init", None, None, None, None, None)
    /\ nextId = 0
    /\ creates = 0
    /\ template = NoTemplate
    /\ heap = <<>>
    /\ templateBefore = NoTemplate
    /\ resolved = NoResult
    /\ resolveCalls = 0
    /\ saved = NothingSaved
    /\ rebuilt = NotRebuilt
    /\ candidate = NoPipeline
    /\ verdict = NotValidated
    /\ calls = 0
    /\ now = cooldown_period
    /\ mtime = [m \in Modules |-> 0]
    /\ discovered_modules = [m \in Modules |-> NotDiscovered]
    /\ watching = FALSE
    /\ last_reload_time = [d \in Directories |-> 0]
    /\ threads = [t \in Threads |-> At(IF t = MainThread THEN "idle" ELSE "new", 0, <<>>)]
    /\ lock = Unlocked
    /\ workflows = {}
    /\ scheduled = <<>>
    /\ registerLog = {}
    /\ reloaded = NotReloaded
    /\ pendingEvent = FALSE
    /\ watcher = NewWatcher
    /\ inBlock = FALSE
    /\ lastCall = Called("__init__", None, NewWatcher)
    /\ reloads = <<>>
    /\ request = NoCall
    /\ httpLog = <<>>
    /\ response = NoResponse
    /\ workflow = NewWorkflow
    /\ executes = 0
    /\ trace = <<>>
    /\ executed = NotExecuted

RoundTripNext == CreateTemplateFromPipeline \/ RebuildFromTemplate

SpecRoundTrip == RoundTripInitState /\ [][RoundTripNext]_vars

\* Any pipeline of ValidatorPipelines is handed to validate_pipeline once.
ValidatorInitState ==
    /\ candidate \in ValidatorPipelines
    /\ pipe = PipelineInit(<<>>, FALSE)
    /\ lastRun = [c \in Components |-> None]
    /\ clock = 0
    /\ callLog = <<>>
    /\ outcome = [kind |-> "none", exc |-> None, value |-> None]
    /\ runs = 0
    /\ registry = RegistryInit
    /\ registered = NoHistory
    /\ lastOp = Op("init", None, None, None, None, None)
    /\ nextId = 0
    /\ creates = 0
    /\ template = NoTemplate
    /\ heap = <<>>
    /\ templateBefore = NoTemplate
    /\ resolved = NoResult
    /\ resolveCalls = 0
    /\ saved = NothingSaved
    /\ rebuilt = NotRebuilt
    /\ verdict = NotValidated
    /\ calls = 0
    /\ now = cooldown_period
    /\ mtime = [m \in Modules |-> 0]
    /\ discovered_modules = [m \in Modules |-> NotDiscovered]
    /\ watching = FALSE
    /\ last_reload_time = [d \in Directories |-> 0]
    /\ threads = [t \in Threads |-> At(IF t = MainThread THEN "idle" ELSE "new", 0, <<>>)]
    /\ lock = Unlocked
    /\ workflows = {}
    /\ scheduled = <<>>
    /\ registerLog = {}
    /\ reloaded = NotReloaded
    /\ pendingEvent = FALSE
    /\ watcher = NewWatcher
    /\ inBlock = FALSE
    /\ lastCall = Called("__init__", None, NewWatcher)
    /\ reloads = <<>>
    /\ request = NoCall
    /\ httpLog = <<>>
    /\ response = NoResponse
    /\ workflow = NewWorkflow
    /\ executes = 0
    /\ trace = <<>>
    /\ executed = NotExecuted

ValidatorNext == ValidatePipeline

SpecValidator == ValidatorInitState /\ [][ValidatorNext]_vars

\* A new WorkflowDiscovery with an empty registry; the clock starts late
\* enough for the first event of a handler to be outside its cooldown.
DiscoveryInitState ==
    /\ pipe = PipelineInit(<<>>, FALSE)
    /\ lastRun = [c \in Components |-> None]
    /\ clock = 0
    /\ callLog = <<>>
    /\ outcome = [kind |-> "none", exc |-> None, value |-> None]
    /\ runs = 0
    /\ registry = RegistryInit
    /\ registered = NoHistory
    /\ lastOp = Op("init", None, None, None, None, None)
    /\ nextId = 0
    /\ creates = 0
    /\ template = NoTemplate
    /\ heap = <<>>
    /\ templateBefore = NoTemplate
    /\ resolved = NoResult
    /\ resolveCalls = 0
    /\ saved = NothingSaved
    /\ rebuilt = NotRebuilt
    /\ candidate = NoPipeline
    /\ verdict = NotValidated
    /\ calls = 0
    /\ now = cooldown_period
    /\ mtime = [m \in Modules |-> 0]
    /\ discovered_modules = [m \in Modules |-> NotDiscovered]
    /\ watching = FALSE
    /\ last_reload_time = [d \in Directories |-> 0]
    /\ threads = [t \in Threads |-> At(IF t = MainThread THEN "idle" ELSE "new", 0, <<>>)]
    /\ lock = Unlocked
    /\ workflows = {}
    /\ scheduled = <<>>
    /\ registerLog = {}
    /\ reloaded = NotReloaded
    /\ pendingEvent = FALSE
    /\ watcher = NewWatcher
    /\ inBlock = FALSE
    /\ lastCall = Called("__init__", None, NewWatcher)
    /\ reloads = <<>>
    /\ request = NoCall
    /\ httpLog = <<>>
    /\ response = NoResponse
    /\ workflow = NewWorkflow
    /\ executes = 0
    /\ trace = <<>>
    /\ executed = NotExecuted

DiscoveryNext ==
    \/ StartWatching \/ Tick
    \/ \E dir \in Directories, kind \in EventKinds : FileEvent(dir, kind)
    \/ CallReloadWorkflows
    \/ \E p \in DOMAIN Packages : CallDiscoverWorkflows(p)
    \/ RegisterDiscovered
    \/ \E t \in Threads : EnterReload(t) \/ ReloadPackage(t) \/ ReturnFromReload(t)

SpecDiscovery == DiscoveryInitState /\ [][DiscoveryNext]_vars

\* The same discovery with its threads scheduled: a started Timer expires and
\* its thread runs, a thread waiting for the lock gets it once it is free,
\* and a thread inside reload_workflows goes on to its end.  File events,
\* the clock and the main thread's calls are under no obligation.
SpecWatching ==
    /\ DiscoveryInitState /\ [][DiscoveryNext]_vars
    /\ \A t \in Threads : WF_vars(EnterReload(t))
    /\ \A t \in Threads : WF_vars(ReloadPackage(t))
    /\ \A t \in Threads : WF_vars(ReturnFromReload(t))
    /\ WF_vars(RegisterDiscovered)

\* A new WorkflowWatcher.
WatcherInitState ==
    /\ pipe = PipelineInit(<<>>, FALSE)
    /\ lastRun = [c \in Components |-> None]
    /\ clock = 0
    /\ callLog = <<>>
    /\ outcome = [kind |-> "none", exc |-> None, value |-> None]
    /\ runs = 0
    /\ registry = RegistryInit
    /\ registered = NoHistory
    /\ lastOp = Op("init", None, None, None, None, None)
    /\ nextId = 0
    /\ creates = 0
    /\ template = NoTemplate
    /\ heap = <<>>
    /\ templateBefore = NoTemplate
    /\ resolved = NoResult
    /\ resolveCalls = 0
    /\ saved = NothingSaved
    /\ rebuilt = NotRebuilt
    /\ candidate = NoPipeline
    /\ verdict = NotValidated
    /\ calls = 0
    /\ now = cooldown_period
    /\ mtime = [m \in Modules |-> 0]
    /\ discovered_modules = [m \in Modules |-> NotDiscovered]
    /\ watching = FALSE
    /\ last_reload_time = [d \in Directories |-> 0]
    /\ threads = [t \in Threads |-> At(IF t = MainThread THEN "idle" ELSE "new", 0, <<>>)]
    /\ lock = Unlocked
    /\ workflows = {}
    /\ scheduled = <<>>
    /\ registerLog = {}
    /\ reloaded = NotReloaded
    /\ pendingEvent = FALSE
    /\ watcher = NewWatcher
    /\ inBlock = FALSE
    /\ lastCall = Called("__init__", None, NewWatcher)
    /\ reloads = <<>>
    /\ request = NoCall
    /\ httpLog = <<>>
    /\ response = NoResponse
    /\ workflow = NewWorkflow
    /\ executes = 0
    /\ trace = <<>>
    /\ executed = NotExecuted

WatcherNext ==
    \/ Start \/ Stop \/ Enter
    \/ \E raised \in BOOLEAN : Exit(raised)
    \/ \E path \in EventPaths, is_directory \in BOOLEAN, callback_raises \in BOOLEAN :
          FileChanged(path, is_directory, callback_raises)

SpecWatcher == WatcherInitState /\ [][WatcherNext]_vars

\* An APIClient on which _make_request has not been called.
ApiInitState ==
    /\ pipe = PipelineInit(<<>>, FALSE)
    /\ lastRun = [c \in Components |-> None]
    /\ clock = 0
    /\ callLog = <<>>
    /\ outcome = [kind |-> "none", exc |-> None, value |-> None]
    /\ runs = 0
    /\ registry = RegistryInit
    /\ registered = NoHistory
    /\ lastOp = Op("init", None, None, None, None, None)
    /\ nextId = 0
    /\ creates = 0
    /\ template = NoTemplate
    /\ heap = <<>>
    /\ templateBefore = NoTemplate
    /\ resolved = NoResult
    /\ resolveCalls = 0
    /\ saved = NothingSaved
    /\ rebuilt = NotRebuilt
    /\ candidate = NoPipeline
    /\ verdict = NotValidated
    /\ calls = 0
    /\ now = cooldown_period
    /\ mtime = [m \in Modules |-> 0]
    /\ discovered_modules = [m \in Modules |-> NotDiscovered]
    /\ watching = FALSE
    /\ last_reload_time = [d \in Directories |-> 0]
    /\ threads = [t \in Threads |-> At(IF t = MainThread THEN "idle" ELSE "new", 0, <<>>)]
    /\ lock = Unlocked
    /\ workflows = {}
    /\ scheduled = <<>>
    /\ registerLog = {}
    /\ reloaded = NotReloaded
    /\ pendingEvent = FALSE
    /\ watcher = NewWatcher
    /\ inBlock = FALSE
    /\ lastCall = Called("__init__", None, NewWatcher)
    /\ reloads = <<>>
    /\ request = NoCall
    /\ httpLog = <<>>
    /\ response = NoResponse
    /\ workflow = NewWorkflow
    /\ executes = 0
    /\ trace = <<>>
    /\ executed = NotExecuted

ApiNext ==
    \/ \E method \in Methods, retry_count \in 0..MaxRetryCount : MakeRequest(method, retry_count)
    \/ \E result \in Outcomes : Attempt(result)
    \/ UnsupportedMethod \/ LoopEnds

SpecApi == ApiInitState /\ [][ApiNext]_vars

\* A workflow just constructed.
WorkflowInitState ==
    /\ pipe = PipelineInit(<<>>, FALSE)
    /\ lastRun = [c \in Components |-> None]
    /\ clock = 0
    /\ callLog = <<>>
    /\ outcome = [kind |-> "none", exc |-> None, value |-> None]
    /\ runs = 0
    /\ registry = RegistryInit
    /\ registered = NoHistory
    /\ lastOp = Op("init", None, None, None, None, None)
    /\ nextId = 0
    /\ creates = 0
    /\ template = NoTemplate
    /\ heap = <<>>
    /\ templateBefore = NoTemplate
    /\ resolved = NoResult
    /\ resolveCalls = 0
    /\ saved = NothingSaved
    /\ rebuilt = NotRebuilt
    /\ candidate = NoPipeline
    /\ verdict = NotValidated
    /\ calls = 0
    /\ now = cooldown_period
    /\ mtime = [m \in Modules |-> 0]
    /\ discovered_modules = [m \in Modules |-> NotDiscovered]
    /\ watching = FALSE
    /\ last_reload_time = [d \in Directories |-> 0]
    /\ threads = [t \in Threads |-> At(IF t = MainThread THEN "idle" ELSE "new", 0, <<>>)]
    /\ lock = Unlocked
    /\ workflows = {}
    /\ scheduled = <<>>
    /\ registerLog = {}
    /\ reloaded = NotReloaded
    /\ pendingEvent = FALSE
    /\ watcher = NewWatcher
    /\ inBlock = FALSE
    /\ lastCall = Called("__init__", None, NewWatcher)
    /\ reloads = <<>>
    /\ request = NoCall
    /\ httpLog = <<>>
    /\ response = NoResponse
    /\ workflow = NewWorkflow
    /\ executes = 0
    /\ trace = <<>>
    /\ executed = NotExecuted

WorkflowNext ==
    \/ BeginExecute
    \/ \E ret \in Contexts : StepReturns(ret)
    \/ StepRaises

SpecWorkflow == WorkflowInitState /\ [][WorkflowNext]_vars

\* A manager whose registry holds the discovered types and no instance,
\* driven in any order through create_pipeline_from_template, register and
\* unregister calls and reloads (extractors and pipelines are also registered
\* by hand; transformers and loaders by templates only).
IntegrityInitState ==
    /\ registry = ManagerTypes
    /\ lastOp = Op("init", "pipelines", None, NoSuchFile, None, NoPipeline)
    /\ nextId = 1
    /\ pipe = PipelineInit(<<>>, FALSE)
    /\ lastRun = [c \in Components |-> None]
    /\ clock = 0
    /\ callLog = <<>>
    /\ outcome = [kind |-> "none", exc |-> None, value |-> None]
    /\ runs = 0
    /\ registered = NoHistory
    /\ creates = 0
    /\ template = NoTemplate
    /\ heap = <<>>
    /\ templateBefore = NoTemplate
    /\ resolved = NoResult
    /\ resolveCalls = 0
    /\ saved = NothingSaved
    /\ rebuilt = NotRebuilt
    /\ candidate = NoPipeline
    /\ verdict = NotValidated
    /\ calls = 0
    /\ now = cooldown_period
    /\ mtime = [m \in Modules |-> 0]
    /\ discovered_modules = [m \in Modules |-> NotDiscovered]
    /\ watching = FALSE
    /\ last_reload_time = [d \in Directories |-> 0]
    /\ threads = [t \in Threads |-> At(IF t = MainThread THEN "idle" ELSE "new", 0, <<>>)]
    /\ lock = Unlocked
    /\ workflows = {}
    /\ scheduled = <<>>
    /\ registerLog = {}
    /\ reloaded = NotReloaded
    /\ pendingEvent = FALSE
    /\ watcher = NewWatcher
    /\ inBlock = FALSE
    /\ lastCall = Called("__init__", None, NewWatcher)
    /\ reloads = <<>>
    /\ request = NoCall
    /\ httpLog = <<>>
    /\ response = NoResponse
    /\ workflow = NewWorkflow
    /\ executes = 0
    /\ trace = <<>>
    /\ executed = NotExecuted

IntegrityNext ==
    \/ CreatePipelineFromIntegrityFile
    \/ RegisterExtractor \/ RegisterPipeline
    \/ UnregisterExtractor \/ UnregisterTransformer \/ UnregisterLoader \/ UnregisterPipeline
    \/ ReloadExtractors

SpecIntegrity == IntegrityInitState /\ [][IntegrityNext]_vars

====
